---- MODULE Spec2Model ----
(***************************************************************************)
(* The session/command layer of Socli (src/App.py) together with the graph *)
(* store it talks to.  Text is a sequence of one-character strings, so     *)
(* that strip(), lower() and the e-mail pattern are computed, not assumed. *)
(* Every command handler is one action; its queries are issued in the      *)
(* order of the code and each of them may fail (execute_query returns      *)
(* None).  The register of two client sessions and the bulk importer       *)
(* (src/dataimporter.py) run against the same store, one query at a time.  *)
(***************************************************************************)
EXTENDS Integers, Sequences, FiniteSets, TLC

VARIABLES driver, nodes, rels, current_user, reg, imp

vars == <<driver, nodes, rels, current_user, reg, imp>>

----------------------------------------------------------------------------
(* Bounds *)

MaxNodes == 3

MaxFollow == 2

----------------------------------------------------------------------------
(* Text *)

Empty == <<>>

alice == <<"a", "l">>

bob == <<"b", "o">>

carol == <<"c", "a">>

PadAlice == <<" ", "a", "l", " ">>

ax == <<"a", "@", "x", ".", "c">>

bx == <<"b", "@", "x", ".", "c">>

NoDot == <<"a", "@", "x">>

Ann == <<"A">>

Bio == <<"B">>

Bea == <<"E">>

cx == <<"c", "@", "x", ".", "c">>

Blank == <<" ", " ">>

pw1 == <<"p">>

pw2 == <<"q">>

yes == <<"y", "e", "s">>

Yes == <<"Y", "e", "s">>

YES == <<"Y", "E", "S">>

no == <<"n", "o">>

PadYes == <<" ", "y", "e", "s">>

Whitespace == {" ", "\t", "\n", "\r"}

RECURSIVE LStrip(_)
LStrip(s) ==
    IF s # <<>> /\ Head(s) \in Whitespace THEN LStrip(Tail(s)) ELSE s

RECURSIVE RStrip(_)
RStrip(s) ==
    IF s # <<>> /\ s[Len(s)] \in Whitespace
    THEN RStrip(SubSeq(s, 1, Len(s) - 1))
    ELSE s

Strip(s) == RStrip(LStrip(s))

LowerChar(c) ==
    CASE c = "Y" -> "y"
      [] c = "E" -> "e"
      [] c = "S" -> "s"
      [] c = "N" -> "n"
      [] c = "O" -> "o"
      [] c = "A" -> "a"
      [] c = "B" -> "b"
      [] c = "L" -> "l"
      [] OTHER -> c

Lower(s) == [i \in 1..Len(s) |-> LowerChar(s[i])]

(* hashlib.sha256(password.encode()).hexdigest(): a digest is never the    *)
(* cleartext, and distinct passwords of the model have distinct digests.   *)
sha256(p) == <<"#">> \o p

(* re.match(r"[^@]+@[^@]+\.[^@]+", email): the pattern is anchored at the  *)
(* start only; i is the position of "@" and j the position of the dot.     *)
email_ok(e) ==
    \E i \in 2..Len(e) : \E j \in (i + 2)..(Len(e) - 1) :
        /\ e[i] = "@"
        /\ \A k \in 1..(i - 1) : e[k] # "@"
        /\ e[j] = "."
        /\ \A k \in (i + 1)..(j - 1) : e[k] # "@"
        /\ e[j + 1] # "@"

----------------------------------------------------------------------------
(* The graph store: User nodes and FOLLOWS relationships.  nodes is a set  *)
(* of records with a store-assigned id, so two nodes may carry the same    *)
(* username unless a constraint forbids it; rels counts the relationships  *)
(* of every ordered pair of node ids.                                      *)

Ids == 1..MaxNodes

Pairs == Ids \X Ids

NoRels == [p \in Pairs |-> 0]

(* Mutant: the constraints were never created. *)
NoConstraints == {}

(* _setup_database: the two uniqueness constraints of the store. *)
Constraints == {"username", "email"}

(* Mutant: the constraint on the email is missing. *)
ViolatesUsernameOnly(ns) ==
    /\ "username" \in Constraints
    /\ \E m, n \in ns : m.id # n.id /\ m.username = n.username

Violates(ns) ==
    \/ /\ "username" \in Constraints
       /\ \E m, n \in ns : m.id # n.id /\ m.username = n.username
    \/ /\ "email" \in Constraints
       /\ \E m, n \in ns : m.id # n.id /\ m.email = n.email

FreshId(ns) ==
    IF \E i \in Ids : \A n \in ns : n.id # i
    THEN CHOOSE i \in Ids : (\A n \in ns : n.id # i)
                            /\ \A j \in Ids : (\A n \in ns : n.id # j) => i <= j
    ELSE 0

ByUsername(ns, u) == {n \in ns : n.username = u}

ByEmail(ns, e) == {n \in ns : n.email = e}

(* Mutant: the password is not compared. *)
ByCredentialsAnyPassword(ns, u, h) == {n \in ns : n.username = u}

ByCredentials(ns, u, h) == {n \in ns : n.username = u /\ n.password = h}

(* Python None is a result that is not ok; a list of rows is one that is. *)
None == [ok |-> FALSE, rows |-> {}]

Rows(r) == [ok |-> TRUE, rows |-> r]

(* execute_query: None without a driver or when session.run raises. *)
execute_query(fails, rows) == IF fails THEN None ELSE Rows(rows)

Truthy(r) == r.ok /\ r.rows # {}


----------------------------------------------------------------------------
(* A handler runs in a state st = [driver, nodes, rels, user] and leaves    *)
(* behind: the message it printed (out), the number of queries it sent to  *)
(* the store (nq), whether one of them came back as None (failed), the     *)
(* rows it listed, and the store and session after it.                     *)

Result(out, nq, failed, ns, rs, u, rows) ==
    [out |-> out, nq |-> nq, failed |-> failed, nodes |-> ns, rels |-> rs,
     user |-> u, rows |-> rows]

(* The handler returns without touching the store or the session. *)
Keep(st, out, nq, failed) ==
    Result(out, nq, failed, st.nodes, st.rels, st.user, <<>>)

User(id, username, name, email, password, bio) ==
    [id |-> id, username |-> username, name |-> name, email |-> email,
     password |-> password, bio |-> bio]

(* CREATE (u:User {...}) of do_register. *)
CreateUser(ns, username, name, email, password) ==
    ns \cup {User(FreshId(ns), username, name, email, password, Empty)}

do_register(st, username_in, name_in, email_in, password, confirm_password, f) ==
    LET username == Strip(username_in)
        name == Strip(name_in)
        email == Strip(email_in)
        q1 == execute_query(f[1], ByUsername(st.nodes, username))
        q2 == execute_query(f[2], ByEmail(st.nodes, email))
        created == CreateUser(st.nodes, username, name, email, sha256(password))
        q3 == execute_query(f[3] \/ Violates(created), {username})
    IN  IF ~st.driver THEN Keep(st, "unavailable", 0, FALSE)
        ELSE IF username = Empty THEN Keep(st, "username_empty", 0, FALSE)
        ELSE IF Truthy(q1) THEN Keep(st, "username_taken", 1, FALSE)
        ELSE IF ~email_ok(email) THEN Keep(st, "email_invalid", 1, ~q1.ok)
        ELSE IF Truthy(q2) THEN Keep(st, "email_taken", 2, ~q1.ok)
        ELSE IF password = Empty
             THEN Keep(st, "password_empty", 2, ~q1.ok \/ ~q2.ok)
        ELSE IF password # confirm_password
             THEN Keep(st, "password_mismatch", 2, ~q1.ok \/ ~q2.ok)
        ELSE IF Truthy(q3)
             THEN Result("registered", 3, ~q1.ok \/ ~q2.ok, created, st.rels,
                         st.user, <<>>)
        ELSE Keep(st, "register_failed", 3, TRUE)

(* username = arg.strip() if arg else input("Username: ").strip() *)
LoginUsername(arg, typed) == IF arg # Empty THEN Strip(arg) ELSE Strip(typed)

(* Mutant: the "already logged in" check is missing. *)
do_login_while_logged_in(st, arg, typed, password, f) ==
    LET username == LoginUsername(arg, typed)
        result == execute_query(f[1],
                      ByCredentials(st.nodes, username, sha256(password)))
    IN  IF ~st.driver THEN Keep(st, "unavailable", 0, FALSE)
        ELSE IF username = Empty THEN Keep(st, "username_empty", 0, FALSE)
        ELSE IF Truthy(result)
             THEN Result("welcome", 1, FALSE, st.nodes, st.rels, username, <<>>)
        ELSE Keep(st, "invalid_credentials", 1, ~result.ok)

do_login(st, arg, typed, password, f) ==
    LET username == LoginUsername(arg, typed)
        result == execute_query(f[1],
                                ByCredentials(st.nodes, username, sha256(password)))
    IN  IF ~st.driver THEN Keep(st, "unavailable", 0, FALSE)
        ELSE IF st.user # Empty THEN Keep(st, "already_logged_in", 0, FALSE)
        ELSE IF username = Empty THEN Keep(st, "username_empty", 0, FALSE)
        ELSE IF Truthy(result)
             THEN Result("welcome", 1, FALSE, st.nodes, st.rels, username, <<>>)
        ELSE Keep(st, "invalid_credentials", 1, ~result.ok)

do_logout(st) ==
    IF st.user = Empty THEN Keep(st, "not_logged_in", 0, FALSE)
    ELSE Result("goodbye", 0, FALSE, st.nodes, st.rels, Empty, <<>>)

(* MATCH (n:User {username: $username}) DETACH DELETE n: the matched st.nodes *)
(* go together with every relationship that starts or ends at one of them. *)
DetachDeleteNodes(ns, username) == ns \ ByUsername(ns, username)

(* Mutant: only the relationships that start at the deleted node go. *)
DeleteOutgoingRels(ns, rs, username) ==
    LET gone == {n.id : n \in ByUsername(ns, username)}
    IN  [p \in Pairs |-> IF p[1] \in gone THEN 0 ELSE rs[p]]

DetachDeleteRels(ns, rs, username) ==
    LET gone == {n.id : n \in ByUsername(ns, username)}
    IN  [p \in Pairs |-> IF p[1] \in gone \/ p[2] \in gone THEN 0 ELSE rs[p]]

(* Mutant: the confirmation is compared in lower case, as in do_unfollow. *)
DeleteConfirmedAnyCase(confirm_deletion) == Lower(confirm_deletion) = yes

(* if not confirm_deletion or confirm_deletion != "yes": cancel *)
DeleteConfirmed(confirm_deletion) ==
    ~(confirm_deletion = Empty \/ confirm_deletion # yes)

(* Mutant: the session stays logged in after its user was deleted. *)
do_delete_keeping_session(st, password, password_confirmation, confirm_deletion, f) ==
    LET hashed_password == sha256(password)
        hashed_password_confirmation == sha256(password_confirmation)
        result == execute_query(~st.driver \/ f[1],
                      ByCredentials(st.nodes, st.user, hashed_password))
        delete_result == execute_query(~st.driver \/ f[2], {})
        sent == IF st.driver THEN 1 ELSE 0
    IN  IF st.user = Empty THEN Keep(st, "login_required", 0, FALSE)
        ELSE IF hashed_password # hashed_password_confirmation
             THEN Keep(st, "password_mismatch", 0, FALSE)
        ELSE IF ~Truthy(result) THEN Keep(st, "silent", sent, ~result.ok)
        ELSE IF ~DeleteConfirmed(confirm_deletion)
             THEN Keep(st, "delete_cancelled", 1, FALSE)
        ELSE IF delete_result.ok
             THEN Result("deleted", 2, FALSE,
                         DetachDeleteNodes(st.nodes, st.user),
                         DetachDeleteRels(st.nodes, st.rels, st.user),
                         st.user, <<>>)
        ELSE Keep(st, "delete_failed", 2, TRUE)

do_delete(st, password, password_confirmation, confirm_deletion, f) ==
    LET hashed_password == sha256(password)
        hashed_password_confirmation == sha256(password_confirmation)
        result == execute_query(~st.driver \/ f[1],
                      ByCredentials(st.nodes, st.user, hashed_password))
        delete_result == execute_query(~st.driver \/ f[2], {})
        sent == IF st.driver THEN 1 ELSE 0
    IN  IF st.user = Empty THEN Keep(st, "login_required", 0, FALSE)
        ELSE IF hashed_password # hashed_password_confirmation
             THEN Keep(st, "password_mismatch", 0, FALSE)
        ELSE IF ~Truthy(result) THEN Keep(st, "silent", sent, ~result.ok)
        ELSE IF ~DeleteConfirmed(confirm_deletion)
             THEN Keep(st, "delete_cancelled", 1, FALSE)
        ELSE IF delete_result.ok
             THEN Result("deleted", 2, FALSE,
                         DetachDeleteNodes(st.nodes, st.user),
                         DetachDeleteRels(st.nodes, st.rels, st.user),
                         Empty, <<>>)
        ELSE Keep(st, "delete_failed", 2, TRUE)

(* result[0] of a query on one username. *)
First(rows) == CHOOSE n \in rows : TRUE

(* MATCH (u:User {username: $username}) SET u.name, u.email, u.bio *)
SetProfile(ns, username, name, email, bio) ==
    {IF n.username = username
     THEN User(n.id, n.username, name, email, n.password, bio)
     ELSE n : n \in ns}

(* Mutant: a blank name or bio overwrites the current one. *)
do_edit_profile_overwriting(st, name_in, email_in, bio_in, f) ==
    LET result == execute_query(f[1], ByUsername(st.nodes, st.user))
        current == First(result.rows)
        typed_name == Strip(name_in)
        typed_email == Strip(email_in)
        typed_bio == Strip(bio_in)
        name == typed_name
        checked == typed_email # Empty /\ email_ok(typed_email)
        email_check ==
            execute_query(f[2], {n \in ByEmail(st.nodes, typed_email) :
                                     n.username # st.user})
        email == IF typed_email = Empty THEN current.email
                 ELSE IF ~email_ok(typed_email) THEN current.email
                 ELSE IF Truthy(email_check) THEN current.email
                 ELSE typed_email
        bio == typed_bio
        updated == SetProfile(st.nodes, st.user, name, email, bio)
        update_result ==
            execute_query(f[3] \/ Violates(updated), {st.user})
        nq == IF checked THEN 3 ELSE 2
        check_failed == checked /\ ~email_check.ok
    IN  IF ~st.driver THEN Keep(st, "unavailable", 0, FALSE)
        ELSE IF st.user = Empty THEN Keep(st, "login_required", 0, FALSE)
        ELSE IF ~Truthy(result) THEN Keep(st, "profile_unavailable", 1, ~result.ok)
        ELSE IF Truthy(update_result)
             THEN Result("profile_updated", nq, check_failed, updated, st.rels,
                         st.user, <<>>)
        ELSE Keep(st, "update_failed", nq, TRUE)

do_edit_profile(st, name_in, email_in, bio_in, f) ==
    LET result == execute_query(f[1], ByUsername(st.nodes, st.user))
        current == First(result.rows)
        typed_name == Strip(name_in)
        typed_email == Strip(email_in)
        typed_bio == Strip(bio_in)
        name == IF typed_name = Empty THEN current.name ELSE typed_name
        checked == typed_email # Empty /\ email_ok(typed_email)
        email_check ==
            execute_query(f[2], {n \in ByEmail(st.nodes, typed_email) :
                                     n.username # st.user})
        email == IF typed_email = Empty THEN current.email
                 ELSE IF ~email_ok(typed_email) THEN current.email
                 ELSE IF Truthy(email_check) THEN current.email
                 ELSE typed_email
        bio == IF typed_bio = Empty THEN current.bio ELSE typed_bio
        updated == SetProfile(st.nodes, st.user, name, email, bio)
        update_result ==
            execute_query(f[3] \/ Violates(updated), {st.user})
        nq == IF checked THEN 3 ELSE 2
        check_failed == checked /\ ~email_check.ok
    IN  IF ~st.driver THEN Keep(st, "unavailable", 0, FALSE)
        ELSE IF st.user = Empty THEN Keep(st, "login_required", 0, FALSE)
        ELSE IF ~Truthy(result) THEN Keep(st, "profile_unavailable", 1, ~result.ok)
        ELSE IF Truthy(update_result)
             THEN Result("profile_updated", nq, check_failed, updated, st.rels,
                         st.user, <<>>)
        ELSE Keep(st, "update_failed", nq, TRUE)

(* Mutant: the SET matches every User. *)
SetPasswordOfEveryone(ns, username, password) ==
    {User(n.id, n.username, n.name, n.email, password, n.bio) : n \in ns}

(* MATCH (u:User {username: $username}) SET u.password = $password *)
SetPassword(ns, username, password) ==
    {IF n.username = username
     THEN User(n.id, n.username, n.name, n.email, password, n.bio)
     ELSE n : n \in ns}

do_change_password(st, current_password, new_password, confirm_password, f) ==
    LET hashed_current == sha256(current_password)
        verify_result ==
            execute_query(f[1],
                          ByCredentials(st.nodes, st.user, hashed_current))
        hashed_new == sha256(new_password)
        update_result ==
            execute_query(f[2], {n.username : n \in ByUsername(st.nodes, st.user)})
    IN  IF ~st.driver THEN Keep(st, "unavailable", 0, FALSE)
        ELSE IF st.user = Empty THEN Keep(st, "login_required", 0, FALSE)
        ELSE IF ~Truthy(verify_result)
             THEN Keep(st, "password_incorrect", 1, ~verify_result.ok)
        ELSE IF new_password = Empty THEN Keep(st, "password_empty", 1, FALSE)
        ELSE IF new_password # confirm_password
             THEN Keep(st, "password_mismatch", 1, FALSE)
        ELSE IF Truthy(update_result)
             THEN Result("password_changed", 2, FALSE,
                         SetPassword(st.nodes, st.user, hashed_new), st.rels,
                         st.user, <<>>)
        ELSE Keep(st, "change_failed", 2, TRUE)

(* The node-id pairs of MATCH (:User {username: $me}), (:User {username:   *)
(* $them}).                                                                *)
Matched(ns, me, them) ==
    {p \in Pairs : /\ \E n \in ByUsername(ns, me) : n.id = p[1]
                   /\ \E n \in ByUsername(ns, them) : n.id = p[2]}

(* Mutant: the relationship is looked for in the other direction. *)
FollowRowsReversed(ns, rs, me, them) ==
    {p \in Matched(ns, me, them) : rs[<<p[2], p[1]>>] > 0}

(* MATCH (:User {username: $me})-[r:FOLLOWS]->(:User {username: $them}) *)
FollowRows(ns, rs, me, them) == {p \in Matched(ns, me, them) : rs[p] > 0}

(* Mutant: the relationship is created from the target to the caller. *)
CreateFollowsReversed(ns, rs, me, them) ==
    [p \in Pairs |-> IF p \in Matched(ns, them, me) THEN rs[p] + 1 ELSE rs[p]]

(* CREATE (a)-[:FOLLOWS {since: datetime()}]->(b): one more relationship   *)
(* for every matched pair, whatever is already there.                      *)
CreateFollows(ns, rs, me, them) ==
    [p \in Pairs |-> IF p \in Matched(ns, me, them) THEN rs[p] + 1 ELSE rs[p]]

(* Mutant: the relationships of the other direction are deleted. *)
DeleteFollowsReversed(ns, rs, me, them) ==
    [p \in Pairs |-> IF p \in Matched(ns, them, me) THEN 0 ELSE rs[p]]

(* MATCH ...-[r:FOLLOWS]->... DELETE r: every matched relationship goes. *)
DeleteFollows(ns, rs, me, them) ==
    [p \in Pairs |-> IF p \in Matched(ns, me, them) THEN 0 ELSE rs[p]]

(* Mutant: the "cannot follow yourself" check is missing. *)
do_follow_self(st, arg, f) ==
    LET username == Strip(arg)
        user_exists == execute_query(f[1], ByUsername(st.nodes, username))
        already ==
            execute_query(f[2], FollowRows(st.nodes, st.rels, st.user, username))
    IN  IF ~st.driver THEN Keep(st, "unavailable", 0, FALSE)
        ELSE IF st.user = Empty THEN Keep(st, "login_required", 0, FALSE)
        ELSE IF username = Empty THEN Keep(st, "argument_empty", 0, FALSE)
        ELSE IF ~Truthy(user_exists)
             THEN Keep(st, "user_not_found", 1, ~user_exists.ok)
        ELSE IF Truthy(already) THEN Keep(st, "already_following", 2, FALSE)
        ELSE IF f[3] THEN Keep(st, "now_following", 3, TRUE)
        ELSE Result("now_following", 3, ~already.ok, st.nodes,
                    CreateFollows(st.nodes, st.rels, st.user, username),
                    st.user, <<>>)

do_follow(st, arg, f) ==
    LET username == Strip(arg)
        user_exists == execute_query(f[1], ByUsername(st.nodes, username))
        already ==
            execute_query(f[2], FollowRows(st.nodes, st.rels, st.user, username))
    IN  IF ~st.driver THEN Keep(st, "unavailable", 0, FALSE)
        ELSE IF st.user = Empty THEN Keep(st, "login_required", 0, FALSE)
        ELSE IF username = Empty THEN Keep(st, "argument_empty", 0, FALSE)
        ELSE IF username = st.user THEN Keep(st, "self_follow", 0, FALSE)
        ELSE IF ~Truthy(user_exists)
             THEN Keep(st, "user_not_found", 1, ~user_exists.ok)
        ELSE IF Truthy(already) THEN Keep(st, "already_following", 2, FALSE)
        ELSE IF f[3] THEN Keep(st, "now_following", 3, TRUE)
        ELSE Result("now_following", 3, ~already.ok, st.nodes,
                    CreateFollows(st.nodes, st.rels, st.user, username),
                    st.user, <<>>)

(* Mutant: any answer that is not empty confirms. *)
UnfollowAnswered(confirm) == confirm # Empty

(* if confirm.lower() != 'yes': cancel *)
UnfollowConfirmed(confirm) == ~(Lower(confirm) # yes)

(* Mutant: the login check is missing. *)
do_unfollow_anonymous(st, arg, confirm, f) ==
    LET username == Strip(arg)
        check ==
            execute_query(f[1], FollowRows(st.nodes, st.rels, st.user, username))
    IN  IF ~st.driver THEN Keep(st, "unavailable", 0, FALSE)
        ELSE IF username = Empty THEN Keep(st, "argument_empty", 0, FALSE)
        ELSE IF ~Truthy(check) THEN Keep(st, "not_following", 1, ~check.ok)
        ELSE IF ~UnfollowConfirmed(confirm)
             THEN Keep(st, "unfollow_cancelled", 1, FALSE)
        ELSE IF f[2] THEN Keep(st, "unfollowed", 2, TRUE)
        ELSE Result("unfollowed", 2, FALSE, st.nodes,
                    DeleteFollows(st.nodes, st.rels, st.user, username),
                    st.user, <<>>)

do_unfollow(st, arg, confirm, f) ==
    LET username == Strip(arg)
        check ==
            execute_query(f[1], FollowRows(st.nodes, st.rels, st.user, username))
    IN  IF ~st.driver THEN Keep(st, "unavailable", 0, FALSE)
        ELSE IF st.user = Empty THEN Keep(st, "login_required", 0, FALSE)
        ELSE IF username = Empty THEN Keep(st, "argument_empty", 0, FALSE)
        ELSE IF ~Truthy(check) THEN Keep(st, "not_following", 1, ~check.ok)
        ELSE IF ~UnfollowConfirmed(confirm)
             THEN Keep(st, "unfollow_cancelled", 1, FALSE)
        ELSE IF f[2] THEN Keep(st, "unfollowed", 2, TRUE)
        ELSE Result("unfollowed", 2, FALSE, st.nodes,
                    DeleteFollows(st.nodes, st.rels, st.user, username),
                    st.user, <<>>)

----------------------------------------------------------------------------
(* Read-only commands.  ORDER BY compares text by code point.              *)

Alphabet ==
    <<"\t", "\n", "\r", " ", "#", ".", "@", "A", "B", "E", "L", "N", "O", "S",
      "Y", "a", "b", "c", "e", "l", "n", "o", "p", "q", "s", "x", "y">>

CharRank(c) == CHOOSE i \in 1..Len(Alphabet) : Alphabet[i] = c

RECURSIVE TextLess(_, _)
TextLess(a, b) ==
    IF b = <<>> THEN FALSE
    ELSE IF a = <<>> THEN TRUE
    ELSE IF Head(a) = Head(b) THEN TextLess(Tail(a), Tail(b))
    ELSE CharRank(Head(a)) < CharRank(Head(b))

(* The sequences that list every element of S once. *)
Orderings(S) ==
    {s \in [1..Cardinality(S) -> S] : \A i, j \in 1..Cardinality(S) :
                                          i # j => s[i] # s[j]}

Limit(s, n) == IF Len(s) > n THEN SubSeq(s, 1, n) ELSE s

RECURSIVE Repeat(_, _)
Repeat(row, n) == IF n = 0 THEN <<>> ELSE <<row>> \o Repeat(row, n - 1)

RECURSIVE Flatten(_)
Flatten(ss) == IF ss = <<>> THEN <<>> ELSE Head(ss) \o Flatten(Tail(ss))

RECURSIVE SumRels(_, _)
SumRels(rs, ps) ==
    IF ps = {} THEN 0
    ELSE LET p == CHOOSE q \in ps : TRUE
         IN  rs[p] + SumRels(rs, ps \ {p})

IdsOf(ns, username) == {n.id : n \in ByUsername(ns, username)}

(* count(follower) and count(following) of do_profile *)
FollowerCount(ns, rs, username) == SumRels(rs, Ids \X IdsOf(ns, username))

FollowingCount(ns, rs, username) == SumRels(rs, IdsOf(ns, username) \X Ids)

do_profile(st, arg, f) ==
    LET username == IF arg # Empty THEN Strip(arg) ELSE st.user
        result == execute_query(f[1], ByUsername(st.nodes, username))
        user == First(result.rows)
        own == st.user # Empty /\ st.user = username
        followers == IF f[2] THEN -1 ELSE FollowerCount(st.nodes, st.rels, username)
        following == IF f[3] THEN -1 ELSE FollowingCount(st.nodes, st.rels, username)
    IN  IF ~st.driver THEN Keep(st, "unavailable", 0, FALSE)
        ELSE IF arg = Empty /\ st.user = Empty
             THEN Keep(st, "login_or_username", 0, FALSE)
        ELSE IF ~Truthy(result) THEN Keep(st, "user_not_found", 1, ~result.ok)
        ELSE Result("profile", 3, f[2] \/ f[3], st.nodes, st.rels, st.user,
                    <<<<user.username, user.name,
                        IF own THEN user.email ELSE Empty, user.bio,
                        followers, following>>>>)

(* One row per relationship, ORDER BY the listed username; st.nodes that      *)
(* share a username (possible only without the constraint) go by id.       *)
ListRows(ns, count) ==
    LET live == {n \in ns : count[n.id] > 0}
        sorted == CHOOSE s \in Orderings(live) :
                      \A i, j \in 1..Len(s) :
                          i < j => \/ TextLess(s[i].username, s[j].username)
                                   \/ /\ s[i].username = s[j].username
                                      /\ s[i].id < s[j].id
    IN  Flatten([i \in 1..Len(sorted) |->
                    Repeat(<<sorted[i].username, sorted[i].name>>,
                           count[sorted[i].id])])

(* MATCH (f:User)-[:FOLLOWS]->(u:User {username: $username}) *)
FollowersOf(ns, rs, username) ==
    ListRows(ns, [i \in Ids |-> SumRels(rs, {i} \X IdsOf(ns, username))])

(* MATCH (u:User {username: $username})-[:FOLLOWS]->(f:User) *)
FollowingOf(ns, rs, username) ==
    ListRows(ns, [i \in Ids |-> SumRels(rs, IdsOf(ns, username) \X {i})])

do_followers(st, arg, f) ==
    LET username == IF Strip(arg) # Empty THEN Strip(arg) ELSE st.user
        rows == FollowersOf(st.nodes, st.rels, username)
    IN  IF ~st.driver THEN Keep(st, "unavailable", 0, FALSE)
        ELSE IF username = Empty THEN Keep(st, "login_or_username", 0, FALSE)
        ELSE IF f[1] \/ rows = <<>> THEN Keep(st, "no_followers", 1, f[1])
        ELSE Result("followers", 1, FALSE, st.nodes, st.rels, st.user, rows)

do_following(st, arg, f) ==
    LET username == IF Strip(arg) # Empty THEN Strip(arg) ELSE st.user
        rows == FollowingOf(st.nodes, st.rels, username)
    IN  IF ~st.driver THEN Keep(st, "unavailable", 0, FALSE)
        ELSE IF username = Empty THEN Keep(st, "login_or_username", 0, FALSE)
        ELSE IF f[1] \/ rows = <<>> THEN Keep(st, "not_following_anyone", 1, f[1])
        ELSE Result("following", 1, FALSE, st.nodes, st.rels, st.user, rows)

(* MATCH (me)-[:FOLLOWS]->(:User)-[:FOLLOWS]->(rec) WHERE rec.username <>  *)
(* $me AND NOT (me)-[:FOLLOWS]->(rec): the number of two-hop paths from a  *)
(* node called me to the node rec, none when me follows rec directly.      *)
PathCount(ns, rs, me, rec) ==
    LET from == {m \in IdsOf(ns, me) : rs[<<m, rec>>] = 0}
        hops == {h \in from \X Ids : rs[<<h[1], h[2]>>] > 0
                                       /\ rs[<<h[2], rec>>] > 0}
        RECURSIVE Sum(_)
        Sum(hs) == IF hs = {} THEN 0
                   ELSE LET h == CHOOSE x \in hs : TRUE
                        IN  rs[<<h[1], h[2]>>] * rs[<<h[2], rec>>]
                            + Sum(hs \ {h})
    IN  Sum(hops)

(* RETURN rec.username, rec.name and a COUNT groups the paths by the      *)
(* returned username and name.                                             *)
RecommendationGroups(ns, rs, me) ==
    LET recs == {n \in ns : n.username # me /\ PathCount(ns, rs, me, n.id) > 0}
        keys == {<<n.username, n.name>> : n \in recs}
        RECURSIVE Total(_)
        Total(S) == IF S = {} THEN 0
                    ELSE LET n == CHOOSE x \in S : TRUE
                         IN  PathCount(ns, rs, me, n.id) + Total(S \ {n})
    IN  {<<k[1], k[2],
           Total({n \in recs : n.username = k[1] /\ n.name = k[2]})>> :
             k \in keys}

(* ORDER BY mutuals DESC, username *)
RecommendationOrders(groups) ==
    {s \in Orderings(groups) :
        \A i, j \in 1..Len(s) :
            i < j => \/ s[i][3] > s[j][3]
                     \/ /\ s[i][3] = s[j][3]
                        /\ ~TextLess(s[j][1], s[i][1])}

RecommendationLimit == 5

do_recommendations(st, order, f) ==
    IF ~st.driver THEN Keep(st, "unavailable", 0, FALSE)
    ELSE IF st.user = Empty THEN Keep(st, "login_required", 0, FALSE)
    ELSE IF f[1] \/ order = <<>> THEN Keep(st, "no_recommendations", 1, f[1])
    ELSE Result("recommendations", 1, FALSE, st.nodes, st.rels, st.user,
                Limit(order, RecommendationLimit))

RECURSIVE Contains(_, _)
Contains(s, t) ==
    IF Len(t) > Len(s) THEN FALSE
    ELSE IF SubSeq(s, 1, Len(t)) = t THEN TRUE
    ELSE Contains(Tail(s), t)

(* WHERE toLower(u.name) CONTAINS toLower($term) OR toLower(u.username)    *)
(* CONTAINS toLower($term), ORDER BY u.username                            *)
SearchOrders(ns, term) ==
    LET hits == {n \in ns : \/ Contains(Lower(n.name), Lower(term))
                            \/ Contains(Lower(n.username), Lower(term))}
    IN  {s \in Orderings(hits) :
            \A i, j \in 1..Len(s) :
                i < j => ~TextLess(s[j].username, s[i].username)}

SearchLimit == 10

SearchTerm(arg, typed) ==
    IF Strip(arg) # Empty THEN Strip(arg) ELSE Strip(typed)

do_search(st, arg, typed, order, f) ==
    LET term == SearchTerm(arg, typed)
        rows == [i \in 1..Len(order) |-> <<order[i].username, order[i].name>>]
    IN  IF ~st.driver THEN Keep(st, "unavailable", 0, FALSE)
        ELSE IF term = Empty THEN Keep(st, "term_empty", 0, FALSE)
        ELSE IF f[1] \/ rows = <<>> THEN Keep(st, "no_match", 1, f[1])
        ELSE Result("search_results", 1, FALSE, st.nodes, st.rels, st.user,
                    Limit(rows, SearchLimit))

(* The ids of the User nodes of the store. *)
IdsIn(ns) == {n.id : n \in ns}

(* MATCH (u:User)<-[:FOLLOWS]-(f:User) RETURN u.username, u.name, count(f) *)
PopularGroups(ns, rs) ==
    LET followed == {n \in ns : SumRels(rs, IdsIn(ns) \X {n.id}) > 0}
        keys == {<<n.username, n.name>> : n \in followed}
        RECURSIVE Total(_)
        Total(S) == IF S = {} THEN 0
                    ELSE LET n == CHOOSE x \in S : TRUE
                         IN  SumRels(rs, IdsIn(ns) \X {n.id}) + Total(S \ {n})
    IN  {<<k[1], k[2],
           Total({n \in followed : n.username = k[1] /\ n.name = k[2]})>> :
             k \in keys}

(* ORDER BY followers DESC: rows with equal counts come in any order. *)
RECURSIVE PopularOrders(_)
PopularOrders(groups) ==
    IF groups = {} THEN {<<>>}
    ELSE UNION {{<<g>> \o s : s \in PopularOrders(groups \ {g})} :
                   g \in {x \in groups : \A y \in groups : x[3] >= y[3]}}

PopularLimit == 10

(* Mutant: the query has no LIMIT. *)
do_popular_unlimited(st, order, f) ==
    IF ~st.driver THEN Keep(st, "unavailable", 0, FALSE)
    ELSE IF f[1] \/ order = <<>> THEN Keep(st, "popular_failed", 1, f[1])
    ELSE Result("popular", 1, FALSE, st.nodes, st.rels, st.user, order)

do_popular(st, order, f) ==
    IF ~st.driver THEN Keep(st, "unavailable", 0, FALSE)
    ELSE IF f[1] \/ order = <<>> THEN Keep(st, "popular_failed", 1, f[1])
    ELSE Result("popular", 1, FALSE, st.nodes, st.rels, st.user,
                Limit(order, PopularLimit))

(* Mutant: the pattern stops at x, whoever else follows it. *)
MutualNamesOfCaller(ns, rs, user1, user2) ==
    {<<x.username>> : x \in {n \in ns :
        SumRels(rs, IdsOf(ns, user1) \X {n.id}) > 0}}

(* MATCH (me {username: $user1})-[:FOLLOWS]->(x)<-[:FOLLOWS]-(other        *)
(* {username: $user2}) RETURN DISTINCT x.username                          *)
MutualNames(ns, rs, user1, user2) ==
    {<<x.username>> : x \in {n \in ns :
        /\ SumRels(rs, IdsOf(ns, user1) \X {n.id}) > 0
        /\ SumRels(rs, IdsOf(ns, user2) \X {n.id}) > 0}}

do_mutuals(st, arg, order, f) ==
    LET other_username == Strip(arg)
    IN  IF ~st.driver THEN Keep(st, "unavailable", 0, FALSE)
        ELSE IF st.user = Empty THEN Keep(st, "login_required", 0, FALSE)
        ELSE IF other_username = Empty THEN Keep(st, "argument_empty", 0, FALSE)
        ELSE IF other_username = st.user
             THEN Keep(st, "mutuals_with_self", 0, FALSE)
        ELSE IF f[1] THEN Keep(st, "mutuals_failed", 1, TRUE)
        ELSE IF order = <<>> THEN Keep(st, "no_mutuals", 1, FALSE)
        ELSE Result("mutuals", 1, FALSE, st.nodes, st.rels, st.user, order)

----------------------------------------------------------------------------
(* The inputs the commands are tried with. *)

UsernameInputs == {Empty, alice, bob}

ArgInputs == {Empty, alice, bob, PadAlice}

EmailInputs == {Empty, ax, bx, NoDot}

PasswordInputs == {Empty, pw1, pw2}

(* A password and its re-entry: equal, different, or both empty. *)
PasswordPairs == ({pw1, pw2} \X {pw1, pw2}) \cup {<<Empty, Empty>>}

ConfirmInputs == {Empty, yes, Yes, YES, PadYes, no}

TypedInputs == {Empty, bob}

SearchInputs == {Empty, <<"A">>, <<"b">>}

(* f[i]: the i-th query of the handler fails. *)
Fails(n) == [1..n -> BOOLEAN]

(* The store answers every query. *)
NoFail(n) == [i \in 1..n |-> FALSE]

----------------------------------------------------------------------------
(* The state machine *)

(* reg[s] is how far the register command of client session s has come:    *)
(* the store is shared by every client, and one register is several        *)
(* queries.  The single-session specifications leave it idle.              *)
RegisterSessions == {1, 2}

(* answered: every look-up of the session so far came back with rows or    *)
(* with none, not with an error.                                           *)
RegIdle ==
    [s \in RegisterSessions |->
        [pc |-> "idle", username |-> Empty, email |-> Empty,
         answered |-> TRUE, out |-> "none"]]

(* imp is the bulk importer (src/dataimporter.py): where it stands, the    *)
(* files it was started on, what it collected from them, and the time      *)
(* stamps and circles that it put into the store.  follows holds one       *)
(* record for each FOLLOWS relationship that the importer created.         *)
ImpIdle ==
    [pc |-> "idle", files |-> <<>>, total_users |-> {}, total_edges |-> <<>>,
     i |-> 0, run |-> 0, clock |-> 0, follows |-> {}, circles |-> {},
     members |-> {}]

St == [driver |-> driver, nodes |-> nodes, rels |-> rels, user |-> current_user]

(* The state a handler leaves, as the next handler finds it. *)
After(st, r) ==
    [driver |-> st.driver, nodes |-> r.nodes, rels |-> r.rels, user |-> r.user]

(* The store has room for what the handler created. *)
Fits(r) ==
    /\ Cardinality(r.nodes) <= MaxNodes
    /\ \A n \in r.nodes : n.id \in Ids
    /\ \A p \in Pairs : r.rels[p] <= MaxFollow

Apply(r) ==
    /\ Fits(r)
    /\ nodes' = r.nodes
    /\ rels' = r.rels
    /\ current_user' = r.user
    /\ UNCHANGED <<driver, reg, imp>>

(* Neo4jConnection.__init__ and _setup_database have run: the driver is    *)
(* there or not, the store is empty and nobody is logged in.               *)
Init ==
    /\ reg = RegIdle
    /\ imp = ImpIdle
    /\ driver \in BOOLEAN
    /\ nodes = {}
    /\ rels = NoRels
    /\ current_user = Empty

Register(names) ==
    /\ \E u \in UsernameInputs, n \in names, e \in EmailInputs \ {Empty},
          pp \in PasswordPairs, f \in Fails(3) :
           Apply(do_register(St, u, n, e, pp[1], pp[2], f))

Login ==
    /\ \E a \in ArgInputs, t \in TypedInputs, p \in PasswordInputs,
          f \in Fails(1) :
           Apply(do_login(St, a, t, p, f))

Logout ==
    /\ Apply(do_logout(St))

Profile ==
    /\ \E a \in UsernameInputs, f \in Fails(3) :
           Apply(do_profile(St, a, f))

EditProfile(names, bios) ==
    /\ \E n \in names \cup {Empty}, e \in EmailInputs, b \in bios \cup {Empty},
          f \in Fails(3) :
           Apply(do_edit_profile(St, n, e, b, f))

ChangePassword ==
    /\ \E c \in PasswordInputs, pp \in PasswordPairs, f \in Fails(2) :
           Apply(do_change_password(St, c, pp[1], pp[2], f))

Delete ==
    /\ \E pp \in PasswordPairs, c \in ConfirmInputs, f \in Fails(2) :
           Apply(do_delete(St, pp[1], pp[2], c, f))

Follow ==
    /\ \E a \in ArgInputs, f \in Fails(3) :
           Apply(do_follow(St, a, f))

Unfollow ==
    /\ \E a \in ArgInputs, c \in ConfirmInputs, f \in Fails(2) :
           Apply(do_unfollow(St, a, c, f))

Followers ==
    /\ \E a \in UsernameInputs, f \in Fails(1) :
           Apply(do_followers(St, a, f))

Following ==
    /\ \E a \in UsernameInputs, f \in Fails(1) :
           Apply(do_following(St, a, f))

Recommendations ==
    /\ \E o \in RecommendationOrders(
                    RecommendationGroups(nodes, rels, current_user)),
          f \in Fails(1) :
           Apply(do_recommendations(St, o, f))

Mutuals ==
    /\ \E a \in ArgInputs, f \in Fails(1) :
           \E o \in Orderings(MutualNames(nodes, rels, current_user, Strip(a))) :
               Apply(do_mutuals(St, a, o, f))

Search ==
    /\ \E a \in SearchInputs, t \in SearchInputs, f \in Fails(1) :
           \E o \in SearchOrders(nodes, SearchTerm(a, t)) :
               Apply(do_search(St, a, t, o, f))

Popular ==
    /\ \E o \in PopularOrders(PopularGroups(nodes, rels)), f \in Fails(1) :
           Apply(do_popular(St, o, f))

(* Spec registers every user under one name and edits e-mails only. *)
Names == {Ann}

EditNames == {}

EditBios == {}

Next ==
    \/ Register(Names)
    \/ Login
    \/ Logout
    \/ Profile
    \/ EditProfile(EditNames, EditBios)
    \/ ChangePassword
    \/ Delete
    \/ Follow
    \/ Unfollow
    \/ Followers
    \/ Following
    \/ Recommendations
    \/ Mutuals
    \/ Search
    \/ Popular

Spec == Init /\ [][Next]_vars

----------------------------------------------------------------------------
(* Properties.  A property of a command is stated of the handler's result  *)
(* in every reachable state and for every input the command is tried with, *)
(* which is every step that command can take.                              *)

Unchanged(r) == r.nodes = nodes /\ r.rels = rels /\ r.user = current_user

CredentialsMatch(u, p) ==
    \E n \in nodes : n.username = u /\ n.password = sha256(p)

(* C1: the current user changes only from none to u by a login whose       *)
(* username u and password hash match a stored User, and from u to none by *)
(* logout or by a delete that removed the User; no other command changes   *)
(* it, and it never goes from one user straight to another.                *)
C1_SessionTransitions ==
    /\ \A a \in ArgInputs, t \in TypedInputs, p \in PasswordInputs,
          f \in Fails(1) :
          LET r == do_login(St, a, t, p, f)
          IN  r.user # current_user =>
                  /\ current_user = Empty
                  /\ r.user = LoginUsername(a, t)
                  /\ CredentialsMatch(r.user, p)
    /\ LET r == do_logout(St)
       IN  r.user # current_user => r.user = Empty
    /\ \A pp \in PasswordPairs, c \in ConfirmInputs, f \in Fails(2) :
          LET r == do_delete(St, pp[1], pp[2], c, f)
          IN  r.user # current_user =>
                  /\ r.user = Empty
                  /\ ByUsername(nodes, current_user) # {}
                  /\ ByUsername(r.nodes, current_user) = {}
    /\ \A u \in UsernameInputs, n \in Names, e \in EmailInputs,
          pp \in PasswordPairs, f \in Fails(3) :
          do_register(St, u, n, e, pp[1], pp[2], f).user = current_user
    /\ \A a \in UsernameInputs, f \in Fails(3) :
          do_profile(St, a, f).user = current_user
    /\ \A n \in EditNames \cup {Empty}, e \in EmailInputs,
          b \in EditBios \cup {Empty}, f \in Fails(3) :
          do_edit_profile(St, n, e, b, f).user = current_user
    /\ \A c \in PasswordInputs, pp \in PasswordPairs, f \in Fails(2) :
          do_change_password(St, c, pp[1], pp[2], f).user = current_user
    /\ \A a \in ArgInputs, f \in Fails(3) :
          do_follow(St, a, f).user = current_user
    /\ \A a \in ArgInputs, c \in ConfirmInputs, f \in Fails(2) :
          do_unfollow(St, a, c, f).user = current_user
    /\ \A a \in UsernameInputs, f \in Fails(1) :
          /\ do_followers(St, a, f).user = current_user
          /\ do_following(St, a, f).user = current_user
    /\ \A o \in RecommendationOrders(
                    RecommendationGroups(nodes, rels, current_user)),
          f \in Fails(1) :
          do_recommendations(St, o, f).user = current_user
    /\ \A a \in ArgInputs, f \in Fails(1) :
          \A o \in Orderings(MutualNames(nodes, rels, current_user, Strip(a))) :
              do_mutuals(St, a, o, f).user = current_user
    /\ \A a \in SearchInputs, t \in SearchInputs, f \in Fails(1) :
          \A o \in SearchOrders(nodes, SearchTerm(a, t)) :
              do_search(St, a, t, o, f).user = current_user
    /\ \A o \in PopularOrders(PopularGroups(nodes, rels)), f \in Fails(1) :
          do_popular(St, o, f).user = current_user

(* A session that a login opened, in a state where logout and a confirmed  *)
(* delete both close it.                                                   *)
C1_Witness ==
    /\ current_user = alice
    /\ CredentialsMatch(alice, pw1)
    /\ do_logout(St).user = Empty
    /\ do_delete(St, pw1, pw1, yes, NoFail(2)).user = Empty

(* C2: in an Anonymous session whose login query is answered, login(u, p)  *)
(* succeeds, making the session Authenticated as u, if and only if the     *)
(* store holds a User with exactly the username u whose stored hash is the *)
(* hash of p.                                                              *)
C2_LoginIffCredentials ==
    \A a \in ArgInputs, t \in TypedInputs, p \in PasswordInputs :
        LET u == LoginUsername(a, t)
            r == do_login(St, a, t, p, NoFail(1))
        IN  (driver /\ current_user = Empty) =>
                /\ (r.out = "welcome") <=> CredentialsMatch(u, p)
                /\ r.user = IF CredentialsMatch(u, p) THEN u ELSE Empty

(* An Anonymous session with alice registered: her password logs her in    *)
(* and another one does not.                                               *)
C2_Witness ==
    /\ driver /\ current_user = Empty
    /\ CredentialsMatch(alice, pw1)
    /\ do_login(St, alice, Empty, pw1, NoFail(1)).user = alice
    /\ do_login(St, alice, Empty, pw2, NoFail(1)).out = "invalid_credentials"
    /\ do_login(St, bob, Empty, pw1, NoFail(1)).out = "invalid_credentials"

(* C3: no two User nodes share a username and no two share an e-mail, and  *)
(* a register that reuses the username or the e-mail of a stored User      *)
(* never succeeds and never adds a User.                                   *)
C3_UniqueUsernameAndEmail ==
    /\ \A m, n \in nodes :
          m.id # n.id => m.username # n.username /\ m.email # n.email
    /\ \A u \in UsernameInputs, n \in Names, e \in EmailInputs,
          pp \in PasswordPairs, f \in Fails(3) :
          LET r == do_register(St, u, n, e, pp[1], pp[2], f)
          IN  (ByUsername(nodes, Strip(u)) # {} \/ ByEmail(nodes, Strip(e)) # {})
                  => r.out # "registered" /\ r.nodes = nodes

(* Two users are registered; a register that reuses a username or an       *)
(* e-mail is turned away by the pre-check, or by the store's constraint    *)
(* when the pre-check queries fail.                                        *)
C3_Witness ==
    /\ Cardinality(nodes) = 2
    /\ ByUsername(nodes, alice) # {} /\ ByEmail(nodes, bx) # {}
    /\ do_register(St, alice, Ann, NoDot, pw1, pw1, NoFail(3)).out
           = "username_taken"
    /\ do_register(St, alice, Ann, ax, pw1, pw1,
                   [i \in 1..3 |-> i < 3]).out = "register_failed"

(* C4: in an Anonymous session edit_profile, change_password, delete,      *)
(* follow and unfollow stop at a local check: they send no query and leave *)
(* the store and the session as they are.  With a driver the check that    *)
(* stops them is the login check; without one, the connection check of     *)
(* every handler but do_delete comes first.                                *)
C4_Stopped(r, cmd) ==
    /\ r.nq = 0
    /\ Unchanged(r)
    /\ r.out = IF driver \/ cmd = "delete" THEN "login_required"
               ELSE "unavailable"

C4_AnonymousMutationsRejected ==
    current_user = Empty =>
        /\ \A n \in EditNames \cup {Empty}, e \in EmailInputs,
              b \in EditBios \cup {Empty}, f \in Fails(3) :
              C4_Stopped(do_edit_profile(St, n, e, b, f), "edit_profile")
        /\ \A c \in PasswordInputs, pp \in PasswordPairs, f \in Fails(2) :
              C4_Stopped(do_change_password(St, c, pp[1], pp[2], f),
                         "change_password")
        /\ \A pp \in PasswordPairs, c \in ConfirmInputs, f \in Fails(2) :
              C4_Stopped(do_delete(St, pp[1], pp[2], c, f), "delete")
        /\ \A a \in ArgInputs, f \in Fails(3) :
              C4_Stopped(do_follow(St, a, f), "follow")
        /\ \A a \in ArgInputs, c \in ConfirmInputs, f \in Fails(2) :
              C4_Stopped(do_unfollow(St, a, c, f), "unfollow")

(* Nobody is logged in, alice follows bob in the store, and the commands   *)
(* that would change that are turned away.                                 *)
C4_Witness ==
    /\ driver /\ current_user = Empty
    /\ FollowRows(nodes, rels, alice, bob) # {}
    /\ do_unfollow(St, bob, yes, NoFail(2)).out = "login_required"
    /\ do_delete(St, pw1, pw1, yes, NoFail(2)).out = "login_required"

(* C5: the store holds at most one FOLLOWS relationship for each ordered   *)
(* pair of users, also in runs in which queries of a command fail.         *)
C5_AtMostOneEdge == \A p \in Pairs : rels[p] <= 1

(* The caller A of a follow or unfollow, and a target B that exists and is *)
(* not A.                                                                  *)
IsTarget(b) ==
    /\ driver /\ current_user # Empty
    /\ Strip(b) # current_user
    /\ ByUsername(nodes, Strip(b)) # {}

EdgeCount(rs, a, b) == SumRels(rs, IdsOf(nodes, a) \X IdsOf(nodes, b))

(* C6: A is logged in and B exists.  With every query answered, follow B   *)
(* and then follow B again leave exactly one relationship A->B when there  *)
(* was none: the second follow reports that A is already following B and   *)
(* adds nothing.                                                           *)
C6_SecondFollowAddsNothing ==
    \A b \in ArgInputs :
        LET r1 == do_follow(St, b, NoFail(3))
            r2 == do_follow(After(St, r1), b, NoFail(3))
        IN  IsTarget(b) =>
                /\ r2.out = "already_following"
                /\ r2.rels = r1.rels /\ r2.nodes = nodes
                /\ EdgeCount(rels, current_user, Strip(b)) = 0 =>
                       /\ r1.out = "now_following"
                       /\ EdgeCount(r2.rels, current_user, Strip(b)) = 1

(* alice has followed bob once, and following him again reports it. *)
C6_Witness ==
    /\ current_user = alice
    /\ EdgeCount(rels, alice, bob) = 1
    /\ do_follow(St, bob, NoFail(3)).out = "already_following"

(* C7: A is logged in, B exists and A does not follow B.  With every query *)
(* answered, follow B and then a confirmed unfollow B leave no             *)
(* relationship A->B, and the store and the session are what they were     *)
(* before the follow.                                                      *)
C7_FollowThenUnfollowRestores ==
    \A b \in ArgInputs :
        LET r1 == do_follow(St, b, NoFail(3))
            r2 == do_unfollow(After(St, r1), b, yes, NoFail(2))
        IN  (IsTarget(b) /\ EdgeCount(rels, current_user, Strip(b)) = 0) =>
                /\ r1.out = "now_following"
                /\ EdgeCount(r1.rels, current_user, Strip(b)) = 1
                /\ r2.out = "unfollowed"
                /\ EdgeCount(r2.rels, current_user, Strip(b)) = 0
                /\ Unchanged(r2)

(* bob is followed by alice, who is logged in but does not follow him: she *)
(* can follow and unfollow him.                                            *)
C7_Witness ==
    /\ current_user = alice
    /\ IsTarget(bob)
    /\ EdgeCount(rels, bob, alice) = 1
    /\ EdgeCount(rels, alice, bob) = 0
    /\ do_unfollow(After(St, do_follow(St, bob, NoFail(3))), bob, yes,
                   NoFail(2)).out = "unfollowed"

(* C8: a follow whose target is the caller is turned away before any query *)
(* is sent, and the store never holds a relationship from a user to        *)
(* itself.                                                                 *)
C8_NoSelfFollow ==
    /\ \A a \in ArgInputs, f \in Fails(3) :
          LET r == do_follow(St, a, f)
          IN  (current_user # Empty /\ Strip(a) = current_user) =>
                  r.out = "self_follow" /\ r.nq = 0 /\ Unchanged(r)
    /\ \A m, n \in nodes : m.username = n.username => rels[<<m.id, n.id>>] = 0

(* alice is logged in and follows bob; following herself, padded with      *)
(* blanks or not, is turned away.                                          *)
C8_Witness ==
    /\ current_user = alice
    /\ EdgeCount(rels, alice, bob) = 1
    /\ do_follow(St, alice, NoFail(3)).out = "self_follow"
    /\ do_follow(St, PadAlice, NoFail(3)).out = "self_follow"

(* C9: delete changes the store or the session only when the two passwords *)
(* are equal, their hash is the caller's stored hash and the confirmation  *)
(* is exactly "yes"; with any other confirmation ("Yes" among them) or a   *)
(* password mismatch the User, the relationships and the session stay.     *)
C9_DeleteOnlyWhenConfirmed ==
    \A pp \in PasswordPairs, c \in ConfirmInputs, f \in Fails(2) :
        LET r == do_delete(St, pp[1], pp[2], c, f)
        IN  /\ ~Unchanged(r) =>
                  /\ pp[1] = pp[2]
                  /\ CredentialsMatch(current_user, pp[1])
                  /\ c = yes
            /\ (c # yes \/ pp[1] # pp[2]
                \/ ~CredentialsMatch(current_user, pp[1])) => Unchanged(r)

(* alice is logged in and follows bob: "Yes" and a mismatched re-entry     *)
(* cancel her delete, "yes" with her password carries it out.              *)
C9_Witness ==
    /\ current_user = alice
    /\ CredentialsMatch(alice, pw1)
    /\ EdgeCount(rels, alice, bob) = 1
    /\ do_delete(St, pw1, pw1, Yes, NoFail(2)).out = "delete_cancelled"
    /\ do_delete(St, pw1, pw1, PadYes, NoFail(2)).out = "delete_cancelled"
    /\ do_delete(St, pw1, pw2, yes, NoFail(2)).out = "password_mismatch"
    /\ do_delete(St, pw1, pw1, yes, NoFail(2)).out = "deleted"

(* C10 as claimed: unfollow removes the relationship only when it exists   *)
(* and the confirmation is exactly "yes"; any other confirmation, "Yes"    *)
(* and "YES" among them, leaves it in place.                               *)
C10_UnfollowOnlyLiteralYes ==
    \A a \in ArgInputs, c \in ConfirmInputs, f \in Fails(2) :
        LET r == do_unfollow(St, a, c, f)
        IN  /\ r.rels # rels =>
                  EdgeCount(rels, current_user, Strip(a)) > 0 /\ c = yes
            /\ c # yes => r.rels = rels

(* C10 as the code has it: unfollow removes the relationships from the     *)
(* caller to the target only when one exists and the confirmation reads    *)
(* "yes" in any mix of upper and lower case; any other confirmation leaves *)
(* them in place, and no other relationship, User or session changes.      *)
C10_UnfollowOnlyYesAnyCase ==
    \A a \in ArgInputs, c \in ConfirmInputs, f \in Fails(2) :
        LET r == do_unfollow(St, a, c, f)
        IN  /\ r.rels # rels =>
                  /\ EdgeCount(rels, current_user, Strip(a)) > 0
                  /\ Lower(c) = yes
                  /\ EdgeCount(r.rels, current_user, Strip(a)) = 0
            /\ Lower(c) # yes => r.rels = rels
            /\ \A p \in Pairs \ Matched(nodes, current_user, Strip(a)) :
                   r.rels[p] = rels[p]
            /\ r.nodes = nodes /\ r.user = current_user

(* alice follows bob: "no" and " yes" keep the relationship, "Yes" and     *)
(* "YES" remove it as "yes" does.                                          *)
C10_Witness ==
    /\ current_user = alice
    /\ EdgeCount(rels, alice, bob) = 1
    /\ do_unfollow(St, bob, no, NoFail(2)).out = "unfollow_cancelled"
    /\ do_unfollow(St, bob, PadYes, NoFail(2)).out = "unfollow_cancelled"
    /\ EdgeCount(do_unfollow(St, bob, Yes, NoFail(2)).rels, alice, bob) = 0
    /\ EdgeCount(do_unfollow(St, bob, YES, NoFail(2)).rels, alice, bob) = 0
    /\ EdgeCount(do_unfollow(St, bob, yes, NoFail(2)).rels, alice, bob) = 0

----------------------------------------------------------------------------
(* Failure reporting *)

(* The messages with which a command says that it did what was asked. *)
SuccessOutputs ==
    {"registered", "welcome", "goodbye", "deleted", "profile_updated",
     "password_changed", "now_following", "unfollowed", "profile",
     "followers", "following", "recommendations", "search_results",
     "popular", "mutuals"}

(* A query of the command came back as None, or there is no driver, and    *)
(* the command neither reports success nor changes the session.            *)
FailureReported(r) ==
    (r.failed \/ ~driver) =>
        r.out \notin SuccessOutputs /\ r.user = current_user

(* C11: whenever the store is unavailable or a query of the command fails, *)
(* the command does not report success and leaves the session as it was;   *)
(* a follow whose CREATE fails does not say "now following" and an         *)
(* unfollow whose DELETE fails does not say "unfollowed".                  *)
C11_FailureNeverReportedAsSuccess ==
    /\ \A a \in ArgInputs, f \in Fails(3) :
          FailureReported(do_follow(St, a, f))
    /\ \A a \in ArgInputs, c \in ConfirmInputs, f \in Fails(2) :
          FailureReported(do_unfollow(St, a, c, f))
    /\ \A u \in UsernameInputs, n \in Names, e \in EmailInputs,
          pp \in PasswordPairs, f \in Fails(3) :
          FailureReported(do_register(St, u, n, e, pp[1], pp[2], f))
    /\ \A a \in ArgInputs, t \in TypedInputs, p \in PasswordInputs,
          f \in Fails(1) :
          FailureReported(do_login(St, a, t, p, f))
    /\ \A n \in EditNames \cup {Empty}, e \in EmailInputs,
          b \in EditBios \cup {Empty}, f \in Fails(3) :
          FailureReported(do_edit_profile(St, n, e, b, f))
    /\ \A c \in PasswordInputs, pp \in PasswordPairs, f \in Fails(2) :
          FailureReported(do_change_password(St, c, pp[1], pp[2], f))
    /\ \A pp \in PasswordPairs, c \in ConfirmInputs, f \in Fails(2) :
          FailureReported(do_delete(St, pp[1], pp[2], c, f))
    /\ \A a \in UsernameInputs, f \in Fails(3) :
          FailureReported(do_profile(St, a, f))
    /\ \A a \in UsernameInputs, f \in Fails(1) :
          /\ FailureReported(do_followers(St, a, f))
          /\ FailureReported(do_following(St, a, f))

----------------------------------------------------------------------------
(* Validation and queries *)

(* The messages of a command that stopped at a check of its own input. *)
ValidationOutputs ==
    {"username_empty", "email_invalid", "password_empty", "password_mismatch",
     "argument_empty", "term_empty"}

ValidatedFirst(r) == r.out \in ValidationOutputs => r.nq = 0

(* C12: a command that ends in a local validation failure (empty username, *)
(* invalid email, empty password, mismatched confirmation, empty argument) *)
(* has sent no query to the store.                                         *)
C12_ValidationBeforeFirstQuery ==
    /\ \A u \in UsernameInputs, n \in Names, e \in EmailInputs,
          pp \in PasswordInputs \X PasswordInputs, f \in Fails(3) :
          ValidatedFirst(do_register(St, u, n, e, pp[1], pp[2], f))
    /\ \A c \in PasswordInputs, pp \in PasswordInputs \X PasswordInputs,
          f \in Fails(2) :
          ValidatedFirst(do_change_password(St, c, pp[1], pp[2], f))
    /\ \A a \in ArgInputs, t \in TypedInputs, p \in PasswordInputs,
          f \in Fails(1) :
          ValidatedFirst(do_login(St, a, t, p, f))
    /\ \A pp \in PasswordInputs \X PasswordInputs, c \in ConfirmInputs,
          f \in Fails(2) :
          ValidatedFirst(do_delete(St, pp[1], pp[2], c, f))
    /\ \A a \in ArgInputs, f \in Fails(3) :
          ValidatedFirst(do_follow(St, a, f))
    /\ \A a \in ArgInputs, c \in ConfirmInputs, f \in Fails(2) :
          ValidatedFirst(do_unfollow(St, a, c, f))
    /\ \A a \in SearchInputs, t \in SearchInputs, f \in Fails(1) :
          \A o \in SearchOrders(nodes, SearchTerm(a, t)) :
              ValidatedFirst(do_search(St, a, t, o, f))

----------------------------------------------------------------------------
(* Deleting the account *)

(* The delete of user u with its password p reached the DETACH DELETE. *)
DeleteReached(p1, p2, c, f) ==
    /\ current_user # Empty
    /\ p1 = p2
    /\ CredentialsMatch(current_user, p1)
    /\ ~f[1]
    /\ c = yes

(* C13: after a successful delete by U the store has no User U and no      *)
(* relationship that starts or ends at U, every other User and             *)
(* relationship is as before, and nobody is logged in; when the delete     *)
(* query fails, U, its relationships and the session all remain.           *)
C13_DeleteRemovesUserAndEdges ==
    \A pp \in PasswordPairs, c \in ConfirmInputs, f \in Fails(2) :
        LET r == do_delete(St, pp[1], pp[2], c, f)
            gone == IdsOf(nodes, current_user)
        IN  /\ r.out = "deleted" =>
                  /\ ByUsername(r.nodes, current_user) = {}
                  /\ r.nodes = {n \in nodes : n.username # current_user}
                  /\ \A p \in Pairs :
                         r.rels[p] = IF p[1] \in gone \/ p[2] \in gone
                                     THEN 0 ELSE rels[p]
                  /\ r.user = Empty
            /\ (DeleteReached(pp[1], pp[2], c, f) /\ ~f[2]) => r.out = "deleted"
            /\ (DeleteReached(pp[1], pp[2], c, f) /\ f[2]) =>
                  r.out = "delete_failed" /\ Unchanged(r)

(* alice is logged in, follows bob and is followed by bob: her delete      *)
(* removes her and both relationships, and keeps everything when the       *)
(* DETACH DELETE fails.                                                    *)
C13_Witness ==
    /\ current_user = alice
    /\ CredentialsMatch(alice, pw1)
    /\ EdgeCount(rels, alice, bob) = 1
    /\ EdgeCount(rels, bob, alice) = 1
    /\ LET r == do_delete(St, pw1, pw1, yes, NoFail(2))
       IN  /\ r.out = "deleted"
           /\ r.rels = NoRels
           /\ Cardinality(r.nodes) = 1
    /\ do_delete(St, pw1, pw1, yes, [i \in 1..2 |-> i = 2]).out = "delete_failed"

----------------------------------------------------------------------------
(* Who changes a relationship *)

(* The pairs of node ids whose number of relationships the handler changed. *)
ChangedPairs(r) == {p \in Pairs : r.rels[p] # rels[p]}

(* Every changed pair starts at a node of the logged-in user. *)
ByFollower(r) ==
    \A p \in ChangedPairs(r) :
        current_user # Empty /\ p[1] \in IdsOf(nodes, current_user)

(* The commands that never touch a relationship. *)
OthersKeepRels ==
    /\ \A u \in UsernameInputs, n \in Names, e \in EmailInputs,
          pp \in PasswordPairs, f \in Fails(3) :
          do_register(St, u, n, e, pp[1], pp[2], f).rels = rels
    /\ \A a \in ArgInputs, t \in TypedInputs, p \in PasswordInputs,
          f \in Fails(1) :
          do_login(St, a, t, p, f).rels = rels
    /\ do_logout(St).rels = rels
    /\ \A n \in EditNames \cup {Empty}, e \in EmailInputs,
          b \in EditBios \cup {Empty}, f \in Fails(3) :
          do_edit_profile(St, n, e, b, f).rels = rels
    /\ \A c \in PasswordInputs, pp \in PasswordPairs, f \in Fails(2) :
          do_change_password(St, c, pp[1], pp[2], f).rels = rels

(* C14 as claimed: every command that adds or removes a relationship A->B  *)
(* runs in the session of the follower A; no session of another user and   *)
(* no anonymous session changes a relationship whose follower is A.        *)
C14_EdgesOnlyByFollower ==
    /\ \A a \in ArgInputs, f \in Fails(3) : ByFollower(do_follow(St, a, f))
    /\ \A a \in ArgInputs, c \in ConfirmInputs, f \in Fails(2) :
          ByFollower(do_unfollow(St, a, c, f))
    /\ \A pp \in PasswordPairs, c \in ConfirmInputs, f \in Fails(2) :
          ByFollower(do_delete(St, pp[1], pp[2], c, f))
    /\ OthersKeepRels

(* C14 as the code has it: follow adds and unfollow removes only           *)
(* relationships that start at the logged-in user; delete only removes     *)
(* relationships, those that start or end at the logged-in user, so the    *)
(* relationships A->B go with B's own delete as well; no other command and *)
(* no anonymous session changes a relationship.                            *)
C14_EdgesOnlyByFollowerOrDeletedUser ==
    /\ \A a \in ArgInputs, f \in Fails(3) :
          LET r == do_follow(St, a, f)
          IN  ByFollower(r) /\ \A p \in ChangedPairs(r) : r.rels[p] > rels[p]
    /\ \A a \in ArgInputs, c \in ConfirmInputs, f \in Fails(2) :
          LET r == do_unfollow(St, a, c, f)
          IN  ByFollower(r) /\ \A p \in ChangedPairs(r) : r.rels[p] = 0
    /\ \A pp \in PasswordPairs, c \in ConfirmInputs, f \in Fails(2) :
          LET r == do_delete(St, pp[1], pp[2], c, f)
          IN  \A p \in ChangedPairs(r) :
                  /\ current_user # Empty
                  /\ \/ p[1] \in IdsOf(nodes, current_user)
                     \/ p[2] \in IdsOf(nodes, current_user)
                  /\ r.rels[p] = 0
                  /\ r.out = "deleted"
    /\ OthersKeepRels

(* alice is logged in and bob follows her: her follow of bob adds          *)
(* alice->bob, and her delete removes bob->alice, of which bob is the      *)
(* follower.                                                               *)
C14_Witness ==
    /\ current_user = alice
    /\ CredentialsMatch(alice, pw1)
    /\ EdgeCount(rels, bob, alice) = 1
    /\ EdgeCount(rels, alice, bob) = 0
    /\ EdgeCount(do_follow(St, bob, NoFail(3)).rels, alice, bob) = 1
    /\ LET r == do_delete(St, pw1, pw1, yes, NoFail(2))
       IN  r.out = "deleted" /\ r.rels # rels /\ r.rels = NoRels

----------------------------------------------------------------------------
(* Changing the password *)

(* The stored password hashes of the Users called u. *)
StoredHashes(ns, u) == {n.password : n \in ByUsername(ns, u)}

(* C15: change_password puts the hash of the new password in the caller's  *)
(* record only when the hash of the entered current password is the stored *)
(* one, the new password is not empty and its confirmation equals it; in   *)
(* every other case the stored hash stays, and the record of any other     *)
(* User, the relationships and the session never change.                   *)
C15_ChangePassword ==
    \A c \in PasswordInputs, pp \in PasswordInputs \X PasswordInputs,
       f \in Fails(2) :
        LET r == do_change_password(St, c, pp[1], pp[2], f)
            allowed == /\ current_user # Empty
                       /\ CredentialsMatch(current_user, c)
                       /\ pp[1] # Empty
                       /\ pp[2] = pp[1]
        IN  /\ r.nodes # nodes =>
                  /\ allowed
                  /\ r.out = "password_changed"
                  /\ StoredHashes(r.nodes, current_user) = {sha256(pp[1])}
            /\ ~allowed => r.nodes = nodes /\ r.out # "password_changed"
            /\ (allowed /\ driver /\ f = NoFail(2)) =>
                  /\ r.out = "password_changed"
                  /\ StoredHashes(r.nodes, current_user) = {sha256(pp[1])}
            /\ \A n \in nodes : n.username # current_user => n \in r.nodes
            /\ \A n \in r.nodes :
                   \E m \in nodes :
                       /\ m.id = n.id /\ m.username = n.username
                       /\ m.name = n.name /\ m.email = n.email /\ m.bio = n.bio
            /\ r.rels = rels
            /\ r.user = current_user

(* alice, logged in with password "p", and bob, whose password is "p" too: *)
(* alice's change to "q" is carried out and bob's hash stays; a wrong      *)
(* current password, an empty new one and a mismatched confirmation are    *)
(* each turned away.                                                       *)
C15_Witness ==
    /\ current_user = alice
    /\ StoredHashes(nodes, alice) = {sha256(pw1)}
    /\ StoredHashes(nodes, bob) = {sha256(pw1)}
    /\ LET r == do_change_password(St, pw1, pw2, pw2, NoFail(2))
       IN  /\ r.out = "password_changed"
           /\ StoredHashes(r.nodes, alice) = {sha256(pw2)}
           /\ StoredHashes(r.nodes, bob) = {sha256(pw1)}
    /\ do_change_password(St, pw2, pw2, pw2, NoFail(2)).out = "password_incorrect"
    /\ do_change_password(St, pw1, Empty, Empty, NoFail(2)).out = "password_empty"
    /\ do_change_password(St, pw1, pw2, pw1, NoFail(2)).out = "password_mismatch"

----------------------------------------------------------------------------
(* Editing the profile: a specification in which names and bios change.    *)

ProfileNames == {Bea}

ProfileBios == {Bio}

NextProfile ==
    \/ Register(Names)
    \/ Login
    \/ Logout
    \/ EditProfile(ProfileNames, ProfileBios)

SpecProfile == Init /\ [][NextProfile]_vars

(* The record of the logged-in user. *)
Caller(ns) == CHOOSE n \in ns : n.username = current_user

EmailOfAnother(e) == \E m \in nodes : m.username # current_user /\ m.email = e

(* C16: edit_profile keeps each of name, email and bio when the input for  *)
(* that field is blank; it sets the email to a new value only when that    *)
(* value has valid syntax and is not the email of a User other than the    *)
(* caller, and keeps the current email otherwise.  The caller's username   *)
(* and password and every other User stay as they are.                     *)
C16_EditProfileKeepsBlankFields ==
    \A n \in ProfileNames \cup {Empty, Blank},
       e \in EmailInputs \cup {cx, Blank},
       b \in ProfileBios \cup {Empty, Blank}, f \in Fails(3) :
        LET r == do_edit_profile(St, n, e, b, f)
            old == Caller(nodes)
            new == Caller(r.nodes)
            answered == driver /\ f = NoFail(3)
        IN  (current_user # Empty /\ ByUsername(nodes, current_user) # {}) =>
            /\ ByUsername(r.nodes, current_user) = {new}
            /\ new.id = old.id /\ new.password = old.password
            /\ Strip(n) = Empty => new.name = old.name
            /\ Strip(b) = Empty => new.bio = old.bio
            /\ Strip(e) = Empty => new.email = old.email
            /\ new.email # old.email =>
                  /\ new.email = Strip(e)
                  /\ email_ok(Strip(e))
                  /\ ~EmailOfAnother(Strip(e))
            /\ (~email_ok(Strip(e)) \/ EmailOfAnother(Strip(e))) =>
                  new.email = old.email
            /\ answered =>
                  /\ r.out = "profile_updated"
                  /\ Strip(n) # Empty => new.name = Strip(n)
                  /\ Strip(b) # Empty => new.bio = Strip(b)
                  /\ (email_ok(Strip(e)) /\ ~EmailOfAnother(Strip(e))) =>
                        new.email = Strip(e)
            /\ \A m \in nodes : m.username # current_user => m \in r.nodes
            /\ Cardinality(r.nodes) = Cardinality(nodes)
            /\ r.rels = rels /\ r.user = current_user

(* alice is logged in with a name and a bio she has edited, bob has the    *)
(* email b@x.c: blank inputs keep her three fields, bob's email and an     *)
(* email without a dot are not taken over, a free valid email is.          *)
C16_Witness ==
    /\ current_user = alice
    /\ Cardinality(nodes) = 2
    /\ Caller(nodes).name = Bea
    /\ Caller(nodes).bio = Bio
    /\ Caller(nodes).email = ax
    /\ EmailOfAnother(bx)
    /\ LET r == do_edit_profile(St, Blank, Blank, Blank, NoFail(3))
       IN  r.out = "profile_updated" /\ r.nodes = nodes
    /\ LET r == do_edit_profile(St, Empty, bx, Empty, NoFail(3))
       IN  r.out = "profile_updated" /\ r.nodes = nodes
    /\ LET r == do_edit_profile(St, Empty, NoDot, Empty, NoFail(3))
       IN  r.out = "profile_updated" /\ r.nodes = nodes
    /\ LET r == do_edit_profile(St, Ann, cx, Empty, NoFail(3))
       IN  /\ r.out = "profile_updated"
           /\ Caller(r.nodes).email = cx
           /\ Caller(r.nodes).name = Ann
           /\ Caller(r.nodes).bio = Bio

----------------------------------------------------------------------------
(* The degraded state: no driver *)

Unavailable(r) == r.out = "unavailable" /\ r.nq = 0 /\ Unchanged(r)

(* C17: without a connection every data-dependent command (register,       *)
(* login, profile, edit_profile, change_password, delete, follow,          *)
(* unfollow, followers, following, recommendations, mutuals, search,       *)
(* popular) reports that the store is unavailable, sends nothing and       *)
(* leaves the store and the session as they were.                          *)
C17_DegradedModeReportsUnavailable ==
    ~driver =>
    /\ \A u \in UsernameInputs, n \in Names, e \in EmailInputs,
          pp \in PasswordPairs, f \in Fails(3) :
          Unavailable(do_register(St, u, n, e, pp[1], pp[2], f))
    /\ \A a \in ArgInputs, t \in TypedInputs, p \in PasswordInputs,
          f \in Fails(1) :
          Unavailable(do_login(St, a, t, p, f))
    /\ \A a \in UsernameInputs, f \in Fails(3) :
          Unavailable(do_profile(St, a, f))
    /\ \A n \in EditNames \cup {Empty}, e \in EmailInputs,
          b \in EditBios \cup {Empty}, f \in Fails(3) :
          Unavailable(do_edit_profile(St, n, e, b, f))
    /\ \A c \in PasswordInputs, pp \in PasswordPairs, f \in Fails(2) :
          Unavailable(do_change_password(St, c, pp[1], pp[2], f))
    /\ \A a \in ArgInputs, f \in Fails(3) :
          Unavailable(do_follow(St, a, f))
    /\ \A a \in ArgInputs, c \in ConfirmInputs, f \in Fails(2) :
          Unavailable(do_unfollow(St, a, c, f))
    /\ \A a \in UsernameInputs, f \in Fails(1) :
          /\ Unavailable(do_followers(St, a, f))
          /\ Unavailable(do_following(St, a, f))
    /\ \A f \in Fails(1) :
          /\ Unavailable(do_recommendations(St, <<>>, f))
          /\ Unavailable(do_popular(St, <<>>, f))
    /\ \A a \in ArgInputs, f \in Fails(1) :
          Unavailable(do_mutuals(St, a, <<>>, f))
    /\ \A a \in SearchInputs, t \in SearchInputs, f \in Fails(1) :
          Unavailable(do_search(St, a, t, <<>>, f))
    /\ \A pp \in PasswordPairs, c \in ConfirmInputs, f \in Fails(2) :
          Unavailable(do_delete(St, pp[1], pp[2], c, f))

----------------------------------------------------------------------------
(* Recommendations: a specification that starts from a store in which      *)
(* alice, bob and carol are registered and nobody follows anybody.         *)

GraphNames == {alice, bob, carol}

GraphStore ==
    {User(1, alice, Ann, ax, sha256(pw1), Empty),
     User(2, bob, Ann, bx, sha256(pw1), Empty),
     User(3, carol, Ann, cx, sha256(pw1), Empty)}

InitGraph ==
    /\ reg = RegIdle
    /\ imp = ImpIdle
    /\ driver = TRUE
    /\ nodes = GraphStore
    /\ rels = NoRels
    /\ current_user = Empty

GraphLogin ==
    /\ \E a \in GraphNames, f \in Fails(1) :
           Apply(do_login(St, a, Empty, pw1, f))

GraphFollow ==
    /\ \E a \in GraphNames, f \in Fails(3) :
           Apply(do_follow(St, a, f))

GraphUnfollow ==
    /\ \E a \in GraphNames, c \in {yes, no}, f \in Fails(2) :
           Apply(do_unfollow(St, a, c, f))

NextGraph ==
    \/ GraphLogin
    \/ Logout
    \/ GraphFollow
    \/ GraphUnfollow
    \/ Recommendations

SpecGraph == InitGraph /\ [][NextGraph]_vars

Follows(a, b) == rels[<<a, b>>] > 0

CallerId == Caller(nodes).id

(* The users X that the caller follows and that follow R. *)
Via(R) == {X \in nodes : Follows(CallerId, X.id) /\ Follows(X.id, R.id)}

(* The users R to recommend: not the caller, not followed by the caller,   *)
(* and followed by somebody the caller follows.                            *)
Recommended ==
    {R \in nodes : /\ R.username # current_user
                   /\ ~Follows(CallerId, R.id)
                   /\ Via(R) # {}}

RankedBefore(a, b) == a[3] > b[3] \/ (a[3] = b[3] /\ TextLess(a[1], b[1]))

Smaller(a, b) == IF a < b THEN a ELSE b

(* C18: recommendations for the caller C lists exactly the users R such    *)
(* that some X has C->X and X->R, R is not C and C does not follow R, each *)
(* with the number of such X, by count descending and then username        *)
(* ascending, the first 5 of them; with no such R the result is empty and  *)
(* no error is reported.                                                   *)
C18_Recommendations ==
    (driver /\ current_user # Empty /\ ByUsername(nodes, current_user) # {}) =>
    \A o \in RecommendationOrders(
                 RecommendationGroups(nodes, rels, current_user)) :
        LET r == do_recommendations(St, o, NoFail(1))
            want == {<<R.username, R.name, Cardinality(Via(R))>> :
                         R \in Recommended}
            got == {r.rows[i] : i \in 1..Len(r.rows)}
        IN  /\ want = {} => r.out = "no_recommendations" /\ ~r.failed
            /\ want # {} => r.out = "recommendations"
            /\ got \subseteq want
            /\ Len(r.rows) = Smaller(Cardinality(want), RecommendationLimit)
            /\ \A i, j \in 1..Len(r.rows) :
                   i < j => RankedBefore(r.rows[i], r.rows[j])
            /\ \A w \in want \ got, g \in got : RankedBefore(g, w)
            /\ Unchanged(r)

----------------------------------------------------------------------------
(* Followers and following *)

(* The user a list command is about: the argument, or the caller. *)
ListedUser(a) == IF Strip(a) # Empty THEN Strip(a) ELSE current_user

FollowerNames(u) ==
    {A.username : A \in {n \in nodes :
        \E B \in ByUsername(nodes, u) : Follows(n.id, B.id)}}

FolloweeNames(u) ==
    {B.username : B \in {n \in nodes :
        \E A \in ByUsername(nodes, u) : Follows(A.id, n.id)}}

(* The rows name exactly the users of names, each once, in ascending order. *)
ListsExactly(r, names, none) ==
    /\ names = {} => r.out = none /\ r.rows = <<>>
    /\ Len(r.rows) = Cardinality(names)
    /\ {r.rows[i][1] : i \in 1..Len(r.rows)} = names
    /\ \A i, j \in 1..Len(r.rows) :
           i < j => TextLess(r.rows[i][1], r.rows[j][1])
    /\ Unchanged(r)

(* C19: after any sequence of register, follow, unfollow and delete,       *)
(* followers B lists exactly the users A with a relationship A->B and      *)
(* following A exactly the users B with a relationship A->B, in ascending  *)
(* username order, for the caller when no username is given; after alice   *)
(* follows bob, followers bob is [alice] and following alice is [bob].     *)
C19_FollowersAndFollowing ==
    driver =>
    \A a \in ArgInputs :
        ListedUser(a) # Empty =>
            /\ ListsExactly(do_followers(St, a, NoFail(1)),
                            FollowerNames(ListedUser(a)), "no_followers")
            /\ ListsExactly(do_following(St, a, NoFail(1)),
                            FolloweeNames(ListedUser(a)),
                            "not_following_anyone")

----------------------------------------------------------------------------
(* Popular: a specification that starts from stores of up to MaxRanked     *)
(* users and ranks them.                                                   *)

MaxRanked == 12

Letters ==
    <<"a", "b", "c", "d", "e", "f", "g", "h", "i", "j", "k", "l", "m", "n">>

RankedUser(i) ==
    User(i, <<"u", Letters[i]>>, Ann, <<Letters[i], "@", "x", ".", "c">>,
         sha256(pw1), Empty)

RankedStore(n) == {RankedUser(i) : i \in 1..n}

RankedPairs == (1..MaxRanked) \X (1..MaxRanked)

(* Of the users 1..n, user i is followed by every user j with s <= j < i,  *)
(* w relationships each: the users up to s have no follower, the others    *)
(* have different numbers of them.                                         *)
ChainRels(n, s, w) ==
    [p \in RankedPairs |->
        IF p[2] <= n /\ s <= p[1] /\ p[1] < p[2] THEN w ELSE 0]

(* User i follows user i + 1, and user n follows user 1: everybody has one *)
(* follower.                                                               *)
RingRels(n, w) ==
    [p \in RankedPairs |->
        IF p[1] <= n /\ p[2] <= n /\ p[1] # p[2] /\ p[2] = (p[1] % n) + 1
        THEN w ELSE 0]

MaxRing == 4

InitPopular ==
    /\ reg = RegIdle
    /\ imp = ImpIdle
    /\ driver = TRUE
    /\ current_user = Empty
    /\ \E n \in 0..MaxRanked :
          /\ nodes = RankedStore(n)
          /\ \E s \in 1..MaxRanked, w \in 1..MaxFollow :
                \/ s <= n /\ rels = ChainRels(n, s, w)
                \/ n = 0 /\ rels = ChainRels(0, 1, 1)
                \/ 2 <= n /\ n <= MaxRing /\ rels = RingRels(n, w)

RankedPopular ==
    /\ \E o \in PopularOrders(PopularGroups(nodes, rels)), f \in Fails(1) :
           LET r == do_popular(St, o, f)
           IN  /\ nodes' = r.nodes
               /\ rels' = r.rels
               /\ current_user' = r.user
               /\ UNCHANGED <<driver, reg, imp>>

NextPopular ==
    \/ RankedPopular

SpecPopular == InitPopular /\ [][NextPopular]_vars

(* The number of relationships that end at the node n. *)
Inbound(n) == SumRels(rels, IdsIn(nodes) \X {n.id})

(* The rows are rows of want, each once, by count descending, and the      *)
(* first PopularLimit of such a ranking of want.                           *)
TopRanked(rows, want) ==
    LET got == {rows[i] : i \in 1..Len(rows)}
    IN  /\ got \subseteq want
        /\ Cardinality(got) = Len(rows)
        /\ Len(rows) = Smaller(Cardinality(want), PopularLimit)
        /\ \A i, j \in 1..Len(rows) : i < j => rows[i][3] >= rows[j][3]
        /\ \A w \in want \ got, g \in got : g[3] >= w[3]

(* C20 as claimed: popular ranks all users of the store by their number of *)
(* inbound relationships, descending, and returns the first 10 of that     *)
(* ranking, each with its count.                                           *)
C20_PopularRanksAllUsers ==
    driver =>
    \A o \in PopularOrders(PopularGroups(nodes, rels)) :
        TopRanked(do_popular(St, o, NoFail(1)).rows,
                  {<<n.username, n.name, Inbound(n)>> : n \in nodes})

(* C20 as the code has it: popular ranks the users that have at least one  *)
(* inbound relationship by their number of inbound relationships,          *)
(* descending, and returns the first 10 of that ranking, each with its     *)
(* count; a user without followers is not listed, and when nobody has a    *)
(* follower popular lists nothing and says that it failed.                 *)
C20_PopularRanksFollowedUsers ==
    driver =>
    \A o \in PopularOrders(PopularGroups(nodes, rels)) :
        LET r == do_popular(St, o, NoFail(1))
            followed == {n \in nodes : Inbound(n) > 0}
        IN  /\ TopRanked(r.rows,
                         {<<n.username, n.name, Inbound(n)>> : n \in followed})
            /\ r.out = IF followed = {} THEN "popular_failed" ELSE "popular"
            /\ Unchanged(r)

(* Twelve users of whom eleven have followers, user 12 the most: popular   *)
(* lists ten, user 12 first with its eleven followers, and neither user 1, *)
(* who has none, nor user 2, who has the fewest.                           *)
C20_Witness ==
    /\ nodes = RankedStore(12)
    /\ rels = ChainRels(12, 1, 1)
    /\ \A o \in PopularOrders(PopularGroups(nodes, rels)) :
          LET r == do_popular(St, o, NoFail(1))
          IN  /\ Len(r.rows) = PopularLimit
              /\ r.rows[1] = <<RankedUser(12).username, Ann, 11>>
              /\ r.rows[10] = <<RankedUser(3).username, Ann, 2>>

----------------------------------------------------------------------------
(* Mutuals: a specification that starts from stores of five users in which *)
(* user 1 is logged in and users 1 and 2 follow some of the users 3 to 5.  *)

MutualTargets == 3..5

(* User 1 follows the users of A and user 2 those of B, w relationships    *)
(* each; user 2 follows user 1 as well.                                    *)
MutualRels(A, B, w) ==
    [p \in RankedPairs |->
        IF \/ p[1] = 1 /\ p[2] \in A
           \/ p[1] = 2 /\ p[2] \in B
        THEN w
        ELSE IF p = <<2, 1>> THEN 1 ELSE 0]

InitMutuals ==
    /\ reg = RegIdle
    /\ imp = ImpIdle
    /\ driver = TRUE
    /\ nodes = RankedStore(5)
    /\ current_user = RankedUser(1).username
    /\ \E A \in SUBSET MutualTargets, B \in SUBSET MutualTargets,
          w \in 1..MaxFollow :
          rels = MutualRels(A, B, w)

MutualArgs == {RankedUser(i).username : i \in 1..5} \cup {Empty}

RankedMutuals ==
    /\ \E a \in MutualArgs, f \in Fails(1) :
          \E o \in Orderings(MutualNames(nodes, rels, current_user, Strip(a))) :
              LET r == do_mutuals(St, a, o, f)
              IN  /\ nodes' = r.nodes
                  /\ rels' = r.rels
                  /\ current_user' = r.user
                  /\ UNCHANGED <<driver, reg, imp>>

NextMutuals ==
    \/ RankedMutuals

SpecMutuals == InitMutuals /\ [][NextMutuals]_vars

(* The usernames of the users that u follows. *)
Followees(u) ==
    {B.username : B \in {n \in nodes :
        \E A \in ByUsername(nodes, u) : rels[<<A.id, n.id>>] > 0}}

(* The names that a command can be given as its argument in this state. *)
KnownNames == {n.username : n \in nodes} \cup ArgInputs \cup GraphNames

(* C21: mutuals T for the caller C lists exactly the users followed by     *)
(* both C and T, the intersection of C's followees and T's followees, each *)
(* once; with an empty intersection it lists nothing.                      *)
C21_MutualsIsIntersection ==
    (driver /\ current_user # Empty) =>
    \A a \in KnownNames :
        (Strip(a) # Empty /\ Strip(a) # current_user) =>
        \A o \in Orderings(MutualNames(nodes, rels, current_user, Strip(a))) :
            LET r == do_mutuals(St, a, o, NoFail(1))
                both == Followees(current_user) \cap Followees(Strip(a))
            IN  /\ {r.rows[i][1] : i \in 1..Len(r.rows)} = both
                /\ Len(r.rows) = Cardinality(both)
                /\ r.out = IF both = {} THEN "no_mutuals" ELSE "mutuals"
                /\ Unchanged(r)

(* User 1 follows users 3, 4 and 5 twice each and user 2 follows users 3   *)
(* and 4: mutuals with user 2 lists users 3 and 4, once each.              *)
C21_Witness ==
    /\ nodes = RankedStore(5)
    /\ current_user = RankedUser(1).username
    /\ rels = MutualRels({3, 4, 5}, {3, 4}, 2)
    /\ \A o \in Orderings(MutualNames(nodes, rels, current_user,
                                      RankedUser(2).username)) :
          LET r == do_mutuals(St, RankedUser(2).username, o, NoFail(1))
          IN  /\ r.out = "mutuals"
              /\ Len(r.rows) = 2
              /\ {r.rows[1][1], r.rows[2][1]}
                     = {RankedUser(3).username, RankedUser(4).username}

----------------------------------------------------------------------------
(* Two client sessions register against the same store.  One register is   *)
(* three steps, each with one query, and the steps of the two sessions     *)
(* interleave in any order.                                                *)

RegDone(r, out) == [r EXCEPT !.pc = "done", !.out = out]

(* do_register up to the look-up of the username. *)
RegisterUsername(s) ==
    /\ reg[s].pc = "idle"
    /\ \E u \in UsernameInputs, f \in BOOLEAN :
          LET username == Strip(u)
              result == execute_query(f, ByUsername(nodes, username))
          IN  reg' = [reg EXCEPT ![s] =
                  IF username = Empty THEN RegDone(@, "username_empty")
                  ELSE IF Truthy(result)
                       THEN RegDone([@ EXCEPT !.username = username],
                                    "username_taken")
                  ELSE [@ EXCEPT !.pc = "username_checked",
                                 !.username = username,
                                 !.answered = result.ok]]
    /\ UNCHANGED <<driver, nodes, rels, current_user, imp>>

(* do_register from the prompts for name and email to the look-up of the   *)
(* email.                                                                  *)
RegisterEmail(s) ==
    /\ reg[s].pc = "username_checked"
    /\ \E e \in EmailInputs, f \in BOOLEAN :
          LET email == Strip(e)
              result == execute_query(f, ByEmail(nodes, email))
          IN  reg' = [reg EXCEPT ![s] =
                  IF ~email_ok(email) THEN RegDone(@, "email_invalid")
                  ELSE IF Truthy(result)
                       THEN RegDone([@ EXCEPT !.email = email], "email_taken")
                  ELSE [@ EXCEPT !.pc = "email_checked",
                                 !.email = email,
                                 !.answered = @ /\ result.ok]]
    /\ UNCHANGED <<driver, nodes, rels, current_user, imp>>

(* do_register from the prompts for the password to the CREATE. *)
RegisterCreate(s) ==
    /\ reg[s].pc = "email_checked"
    /\ \E n \in Names, pp \in PasswordPairs, f \in BOOLEAN :
          LET created == CreateUser(nodes, reg[s].username, n, reg[s].email,
                                    sha256(pp[1]))
              result == execute_query(f \/ Violates(created),
                                      {reg[s].username})
          IN  IF pp[1] = Empty
              THEN /\ reg' = [reg EXCEPT ![s] = RegDone(@, "password_empty")]
                   /\ UNCHANGED nodes
              ELSE IF pp[1] # pp[2]
              THEN /\ reg' = [reg EXCEPT ![s] = RegDone(@, "password_mismatch")]
                   /\ UNCHANGED nodes
              ELSE IF Truthy(result)
              THEN /\ reg' = [reg EXCEPT ![s] = RegDone(@, "registered")]
                   /\ nodes' = created
              ELSE /\ reg' = [reg EXCEPT ![s] = RegDone(@, "register_failed")]
                   /\ UNCHANGED nodes
    /\ UNCHANGED <<driver, rels, current_user, imp>>

InitRace ==
    /\ reg = RegIdle
    /\ imp = ImpIdle
    /\ driver = TRUE
    /\ nodes = {}
    /\ rels = NoRels
    /\ current_user = Empty

NextRace ==
    \/ \E s \in RegisterSessions : RegisterUsername(s)
    \/ \E s \in RegisterSessions : RegisterEmail(s)
    \/ \E s \in RegisterSessions : RegisterCreate(s)

SpecRace == InitRace /\ [][NextRace]_vars

(* The sessions whose CREATE went through. *)
Registered == {s \in RegisterSessions : reg[s].out = "registered"}

(* The session has passed both look-ups, answered with no row, and has not *)
(* sent its CREATE yet.                                                    *)
PassedChecks(s) == reg[s].pc = "email_checked" /\ reg[s].answered

(* C22: when two sessions register the same username (or the same email)   *)
(* and the look-ups of both run before either CREATE, at most one CREATE   *)
(* succeeds, and the store never holds two Users with one username or one  *)
(* email.                                                                  *)
C22_RegisterRaceKeepsUnique ==
    /\ \A m, n \in nodes :
          m.id # n.id => m.username # n.username /\ m.email # n.email
    /\ \A s, t \in Registered :
          s # t => /\ reg[s].username # reg[t].username
                   /\ reg[s].email # reg[t].email
    /\ Cardinality(nodes) = Cardinality(Registered)
    /\ \A s \in RegisterSessions :
          (/\ PassedChecks(s)
           /\ \E n \in nodes : \/ n.username = reg[s].username
                               \/ n.email = reg[s].email)
          => Violates(CreateUser(nodes, reg[s].username, Ann, reg[s].email,
                                 sha256(pw1)))

(* Both sessions looked alice up and found nobody, then session 1 created  *)
(* her: the CREATE of session 2, with another email, was refused and the   *)
(* store holds one alice.                                                  *)
C22_Witness ==
    /\ reg[1].out = "registered"
    /\ reg[2].out = "register_failed"
    /\ reg[1].username = alice /\ reg[2].username = alice
    /\ reg[1].email = ax /\ reg[2].email = bx
    /\ reg[1].answered /\ reg[2].answered
    /\ Cardinality(ByUsername(nodes, alice)) = 1

----------------------------------------------------------------------------
(* The logged-in user exists *)

(* The session is logged out, or logged in as a User of the store ns. *)
UserExists(ns, user) == user # Empty => ByUsername(ns, user) # {}

(* C23: in every state that the commands of one session reach, a session   *)
(* logged in as u finds a User u in the store: no login leaves it logged   *)
(* in under a name that was never registered, and no delete leaves it      *)
(* logged in under the name of the deleted user.                           *)
C23_CurrentUserExists ==
    /\ UserExists(nodes, current_user)
    /\ \A a \in ArgInputs, t \in TypedInputs, p \in PasswordInputs,
          f \in Fails(1) :
          LET r == do_login(St, a, t, p, f)
          IN  UserExists(r.nodes, r.user)
    /\ \A pp \in PasswordPairs, c \in ConfirmInputs, f \in Fails(2) :
          LET r == do_delete(St, pp[1], pp[2], c, f)
          IN  UserExists(r.nodes, r.user)

(* alice is logged in beside bob and her delete goes through: the session  *)
(* is logged out and her User is gone.                                     *)
C23_Witness ==
    /\ current_user = alice
    /\ ByUsername(nodes, bob) # {}
    /\ LET r == do_delete(St, pw1, pw1, yes, [i \in 1..2 |-> FALSE])
       IN  /\ r.out = "deleted"
           /\ r.user = Empty
           /\ ByUsername(r.nodes, alice) = {}

----------------------------------------------------------------------------
(* The bulk importer (src/dataimporter.py): text of the files *)

DigitChars == <<"0", "1", "2", "3", "4", "5", "6", "7", "8", "9">>

DigitOf(c) == CHOOSE d \in 0..9 : DigitChars[d + 1] = c

(* int(t) for a text of decimal digits. *)
RECURSIVE int(_)
int(t) ==
    IF t = <<>> THEN 0
    ELSE 10 * int(SubSeq(t, 1, Len(t) - 1)) + DigitOf(t[Len(t)])

(* The text of n in an f-string. *)
RECURSIVE str(_)
str(n) ==
    IF n < 10 THEN <<DigitChars[n + 1]>>
    ELSE str(n \div 10) \o <<DigitChars[(n % 10) + 1]>>

(* The first position of t that holds one of seps, or Len(t) + 1. *)
Find(t, seps) ==
    IF \E j \in 1..Len(t) : t[j] \in seps
    THEN CHOOSE j \in 1..Len(t) :
             t[j] \in seps /\ \A h \in 1..(j - 1) : t[h] \notin seps
    ELSE Len(t) + 1

(* t.split(): the pieces of t between runs of whitespace. *)
RECURSIVE split(_)
split(t) ==
    LET s == LStrip(t)
        k == Find(s, Whitespace)
    IN  IF s = <<>> THEN <<>>
        ELSE <<SubSeq(s, 1, k - 1)>> \o split(SubSeq(s, k, Len(s)))

(* t.split('\t'): the pieces of t between single tabs. *)
RECURSIVE split_tab(_)
split_tab(t) ==
    LET k == Find(t, {"\t"})
    IN  IF k > Len(t) THEN <<t>>
        ELSE <<SubSeq(t, 1, k - 1)>> \o split_tab(SubSeq(t, k + 1, Len(t)))

(* parse_edges_file: one (source, target) pair for each line. *)
parse_edges_file(lines) ==
    [i \in 1..Len(lines) |->
        LET parts == split(Strip(lines[i]))
        IN  <<int(parts[1]), int(parts[2])>>]

(* parse_circles_file: circle name -> member ids; a later line with the    *)
(* name of an earlier one replaces it.                                     *)
parse_circles_file(lines) ==
    LET parts(i) == split_tab(Strip(lines[i]))
        last(n) == CHOOSE i \in 1..Len(lines) :
                       /\ parts(i)[1] = n
                       /\ \A j \in (i + 1)..Len(lines) : parts(j)[1] # n
    IN  {[name |-> parts(i)[1],
          user_ids |-> {int(parts(last(parts(i)[1]))[k]) :
                           k \in 2..Len(parts(last(parts(i)[1])))}] :
            i \in 1..Len(lines)}

(* int(file.stem.split('.')[0]) *)
ego_user_id(stem) == int(SubSeq(stem, 1, Find(stem, {"."}) - 1))

(* f"fb{user_id}" *)
fb(user_id) == <<"f", "b">> \o str(user_id)

(* f"user{user_id}@{random.choice(domains)}" *)
generate_email(user_id, domain) ==
    <<"u", "s", "e", "r">> \o str(user_id) \o <<"@">> \o domain

(* One of the domains of generate_email. *)
Domains == {<<"g", ".", "c">>}

(* One of the names of generate_random_name. *)
RandomNames == {<<"J", " ", "S">>}

(* f"Imported Facebook user (ID: {user_id})", without its first words. *)
ImportedBio(user_id) == <<"I", "D", ":", " ">> \o str(user_id)

default_password == <<"p", "a", "s", "s", "w", "o", "r", "d", "1", "2", "3">>

hashed_password == sha256(default_password)

----------------------------------------------------------------------------
(* The bulk importer: its queries *)

batch_size == 500

(* seq[i:i+batch_size] *)
Batch(seq, i) ==
    SubSeq(seq, i + 1, IF i + batch_size < Len(seq) THEN i + batch_size
                       ELSE Len(seq))

(* list(total_users): the order of a set is of no account to the queries;  *)
(* the list here is ascending.                                             *)
RECURSIVE user_list(_)
user_list(ids) ==
    IF ids = {} THEN <<>>
    ELSE LET least == CHOOSE x \in ids : \A y \in ids : x <= y
         IN  <<least>> \o user_list(ids \ {least})

(* MERGE (u:User {username: user.username}) ON CREATE SET ...: a User is   *)
(* created when the store has none of that username.  joinDate and         *)
(* facebook_id are not attributes that any command reads.                  *)
RECURSIVE MergeUsers(_, _, _, _)
MergeUsers(ns, batch, name, domain) ==
    IF batch = <<>> THEN ns
    ELSE LET user_id == Head(batch)
             merged == IF ByUsername(ns, fb(user_id)) # {} THEN ns
                       ELSE ns \cup {User(FreshId(ns), fb(user_id), name,
                                          generate_email(user_id, domain),
                                          hashed_password,
                                          ImportedBio(user_id))}
         IN  MergeUsers(merged, Tail(batch), name, domain)

(* UNWIND $rels AS rel MATCH (source) MATCH (target)                       *)
(* MERGE (source)-[f:FOLLOWS {since: datetime()}]->(target): for each row  *)
(* whose two users exist, MERGE matches a FOLLOWS relationship from source *)
(* to target whose since equals this statement's datetime(), and creates   *)
(* one when there is none.  datetime() is one instant throughout a         *)
(* statement, so the rows of one batch create at most one relationship     *)
(* for a pair, and the outcome is the union below.                         *)
MergeFollows(ns, fs, batch, now) ==
    fs \cup {[source |-> a.id, target |-> b.id, since |-> now] :
                <<a, b>> \in {p \in ns \X ns :
                    \E k \in 1..Len(batch) :
                        /\ p[1].username = fb(batch[k][1])
                        /\ p[2].username = fb(batch[k][2])}}

(* The number of FOLLOWS relationships of every ordered pair. *)
CountFollows(fs) ==
    [p \in Pairs |->
        Cardinality({e \in fs : e.source = p[1] /\ e.target = p[2]})]

(* The circles of every .circles file, as (ego, circle) in a list. *)
RECURSIVE SetToList(_)
SetToList(S) ==
    IF S = {} THEN <<>>
    ELSE LET x == CHOOSE y \in S : TRUE IN <<x>> \o SetToList(S \ {x})

RECURSIVE circle_list(_)
circle_list(files) ==
    IF files = <<>> THEN <<>>
    ELSE SetToList({[ego_username |-> fb(ego_user_id(Head(files).stem)),
                     circle_name |-> c.name, member_ids |-> c.user_ids] :
                       c \in parse_circles_file(Head(files).circles)})
         \o circle_list(Tail(files))

----------------------------------------------------------------------------
(* The bulk importer: one run, statement by statement *)

MaxRuns == 2

L12 == <<"1", " ", "2">>

L21 == <<"2", " ", "1">>

L2x10 == <<"2", "\t", "1", "0">>

Circle0 == <<"c", "0", "\t", "1", "\t", "2">>

(* A file of n lines that goes through the lines of pattern again and      *)
(* again.                                                                  *)
Repeated(pattern, n) ==
    [i \in 1..n |-> pattern[((i - 1) % Len(pattern)) + 1]]

(* Files of one line, of one full batch, and of one line more. *)
FileLengths == {1, batch_size, batch_size + 1}

(* The ego network of a stem: its .edges lines and its .circles lines      *)
(* (none when there is no such file).                                      *)
EgoFiles(stem, patterns, lengths, circles) ==
    {[stem |-> stem, edges |-> Repeated(p, n), circles |-> c] :
        p \in patterns, n \in lengths, c \in circles}

(* The dataset directories of the model: one ego network of up to two      *)
(* batches, alone or beside a second one of a single line.                 *)
Datasets ==
    LET one == EgoFiles(<<"1">>, {<<L12>>, <<L12, L21>>}, FileLengths,
                        {<<>>, <<Circle0>>})
        two == EgoFiles(<<"2", ".", "x">>, {<<L12>>, <<L2x10>>}, {1}, {<<>>})
    IN  {<<a>> : a \in one} \cup {<<a, b>> : a \in one, b \in two}

(* total_edges: the pairs of every file, one file after the other. *)
RECURSIVE total_edges(_)
total_edges(files) ==
    IF files = <<>> THEN <<>>
    ELSE parse_edges_file(Head(files).edges) \o total_edges(Tail(files))

(* total_users: the ego of every file and both ends of every pair. *)
total_users(files) ==
    LET edges == total_edges(files)
        pairs == {edges[k] : k \in 1..Len(edges)}
    IN  {ego_user_id(files[k].stem) : k \in 1..Len(files)}
        \cup {e[1] : e \in pairs} \cup {e[2] : e \in pairs}

InitImport ==
    /\ reg = RegIdle
    /\ driver = TRUE
    /\ nodes = {}
    /\ rels = NoRels
    /\ current_user = Empty
    /\ \E files \in Datasets :
          imp = [ImpIdle EXCEPT !.pc = "start", !.files = files, !.run = 1]

(* Lines 80 to 117: the files are read and their users and pairs           *)
(* collected.                                                              *)
ImportRead ==
    /\ imp.pc = "start"
    /\ imp' = [imp EXCEPT !.pc = "users", !.i = 0,
                          !.total_users = total_users(imp.files),
                          !.total_edges = total_edges(imp.files)]
    /\ UNCHANGED <<driver, nodes, rels, current_user, reg>>

(* The position after the batch at i of a list of n items: the next batch, *)
(* or the stage after the loop.                                            *)
AfterBatch(i, n, stage, following) ==
    IF i + batch_size < n THEN [pc |-> stage, i |-> i + batch_size]
    ELSE [pc |-> following, i |-> 0]

(* One batch of the loop over user_list (lines 128 to 161). *)
ImportUsers ==
    /\ imp.pc = "users"
    /\ \E name \in RandomNames, domain \in Domains, f \in BOOLEAN :
          LET list == user_list(imp.total_users)
              created == MergeUsers(nodes, Batch(list, imp.i), name, domain)
              result == execute_query(f \/ Violates(created), {Len(list)})
              then == AfterBatch(imp.i, Len(list), "users",
                                 IF imp.total_edges = <<>> THEN "circles"
                                 ELSE "relationships")
          IN  /\ nodes' = IF result.ok THEN created ELSE nodes
              /\ imp' = [imp EXCEPT !.pc = then.pc, !.i = then.i]
    /\ UNCHANGED <<driver, rels, current_user, reg>>

(* One batch of the loop over total_edges (lines 165 to 188).  The clock   *)
(* of the store has moved on since the statement before, or it has not.    *)
ImportRelationships ==
    /\ imp.pc = "relationships"
    /\ \E now \in {imp.clock, imp.clock + 1}, f \in BOOLEAN :
          LET merged == MergeFollows(nodes, imp.follows,
                                     Batch(imp.total_edges, imp.i), now)
              result == execute_query(f, {Cardinality(merged)})
              then == AfterBatch(imp.i, Len(imp.total_edges),
                                 "relationships", "circles")
              follows == IF result.ok THEN merged ELSE imp.follows
          IN  /\ rels' = CountFollows(follows)
              /\ imp' = [imp EXCEPT !.pc = then.pc, !.i = then.i,
                                    !.clock = now, !.follows = follows]
    /\ UNCHANGED <<driver, nodes, current_user, reg>>

(* The two queries of one circle (lines 202 to 237), or the end of the run *)
(* when no circle is left.                                                 *)
ImportCircles ==
    /\ imp.pc = "circles"
    /\ \E f \in Fails(2) :
          LET list == circle_list(imp.files)
              c == list[imp.i + 1]
              circle == <<c.circle_name, c.ego_username>>
              circles == IF ~f[1] /\ ByUsername(nodes, c.ego_username) # {}
                         THEN imp.circles \cup {circle}
                         ELSE imp.circles
              members == IF ~f[2] /\ circle \in circles
                         THEN imp.members \cup
                              {<<circle, m.username>> :
                                  m \in {n \in nodes :
                                            \E id \in c.member_ids :
                                                n.username = fb(id)}}
                         ELSE imp.members
          IN  imp' = IF imp.i >= Len(list)
                     THEN [imp EXCEPT !.pc = "done", !.i = 0]
                     ELSE [imp EXCEPT !.i = @ + 1, !.circles = circles,
                                      !.members = members]
    /\ UNCHANGED <<driver, nodes, rels, current_user, reg>>

(* The importer is started again on the same directory. *)
ImportAgain ==
    /\ imp.pc = "done"
    /\ imp.run < MaxRuns
    /\ imp' = [imp EXCEPT !.pc = "start", !.run = @ + 1]
    /\ UNCHANGED <<driver, nodes, rels, current_user, reg>>

NextImport ==
    \/ ImportRead
    \/ ImportUsers
    \/ ImportRelationships
    \/ ImportCircles
    \/ ImportAgain

SpecImport == InitImport /\ [][NextImport]_vars

----------------------------------------------------------------------------
(* One relationship per pair after an import *)

(* C24: the importer keeps at most one FOLLOWS relationship for every      *)
(* ordered pair of users: a pair that comes up in several batches or in    *)
(* several files, or again when the import is run once more on the same    *)
(* files, still has a single relationship from fb<source> to fb<target>.   *)
C24_ImporterKeepsOneEdgePerPair ==
    \A p \in Pairs : rels[p] <= 1

====
